---------------------------- MODULE Spec2Model ----------------------------
(***************************************************************************)
(* Credential rotation and rate-limit resilience layer of veo-studio:      *)
(*   ApiKeyManager        (src/veo-studio/services/apiKeyManager.ts)       *)
(*   parseRateLimitError,                                                  *)
(*   generateSingleAudio  (src/veo-studio/hooks/useAudioGeneration.ts)     *)
(*                                                                         *)
(* Time is Date.now() in milliseconds.  Array indices are 0-based as in    *)
(* the source; the key array is a TLA+ sequence, so keys[i + 1] is the     *)
(* source's this.keys[i].                                                  *)
(***************************************************************************)
EXTENDS Integers, Sequences, FiniteSets, TLC

VARIABLES
  keys,          \* ApiKeyManager.keys: sequence of KeyStatus records
  currentIndex,  \* ApiKeyManager.currentIndex
  now,           \* Date.now()
  ret,           \* what the last call made on the pool from outside returned
  ex,            \* per call site: the activation of generateSingleAudio
  videoFile,     \* App state `videoFile`: whether a video is loaded
  script,        \* App state `script`: null or the ScriptEntry array
  isLoadingScript, \* App state `isLoadingScript`
  audioData,     \* useAudioGeneration state `audioData`
  isLoadingAudio,  \* useAudioGeneration state `isLoadingAudio`
  run            \* per call site: the activation of handleGenerateAllAudio / retryAudioClip

\* The state of the React components
appVars == <<videoFile, script, isLoadingScript, audioData, isLoadingAudio, run>>

vars == <<keys, currentIndex, now, ret, ex, videoFile, script, isLoadingScript,
          audioData, isLoadingAudio, run>>

-----------------------------------------------------------------------------
(* Bounds of the model *)

MaxKeys == 3
MaxTicks == 2
MaxCalls == 4
MaxRetriesBound == 2
MaxItems == 3
MaxGenerated == 2

\* Longest script of the specification with fairness
MaxLiveItems == 2

\* Longest value of the environment variable API_KEY
MaxConfigLen == 4

(* Constants of the program *)

MsPerSecond == 1000
PrefixLen == 20
MaxWaitSeconds == 10
RotateDelayMs == 500
PacingDelayMs == 1000
DefaultMaxRetries == 2

\* The clock advances in steps of one second.
TickMs == MsPerSecond

-----------------------------------------------------------------------------
(* JavaScript values that reach the pool's parameters *)

JsString(s) == [type |-> "string", val |-> s]
JsNumber(n) == [type |-> "number", val |-> n]
JsUndefined == [type |-> "undefined", val |-> 0]
JsNull == [type |-> "null", val |-> 0]
\* A string held as the sequence of its characters, where the code looks into it
JsText(chars) == [type |-> "text", val |-> chars]
JsArray(items) == [type |-> "array", val |-> items]
\* An object: props maps its own property names to their values
JsObject(props) == [type |-> "object", val |-> props]
\* A string that is the JSON text of the value doc
JsonText(doc) == [type |-> "json", val |-> doc]

\* The number NaN (arithmetic on undefined); every availableAt the code computes
\* from numbers is >= 0.
NaN == 0 - 1

\* a <= b and a < b on JavaScript numbers: false when either side is NaN
JsLeq(a, b) == a # NaN /\ b # NaN /\ a <= b
JsLess(a, b) == a # NaN /\ b # NaN /\ a < b

Min(a, b) == IF a <= b THEN a ELSE b

\* v === null || v === undefined
Nullish(v) == v.type \in {"null", "undefined"}

\* Truthiness of a value
Truthy(v) ==
  IF v.type = "string" THEN v.val # ""
  ELSE IF v.type = "text" THEN v.val # <<>>
  ELSE IF v.type = "number" THEN v.val # 0 /\ v.val # NaN
  ELSE v.type \in {"array", "object", "json"}

\* v[name] on a value that is neither null nor undefined: an own property of an
\* object, undefined on anything else
GetProp(v, name) ==
  IF v.type = "object" /\ name \in DOMAIN v.val THEN v.val[name] ELSE JsUndefined

\* The decimal digits, and String(n) of a natural number as characters
DigitChars == <<"0", "1", "2", "3", "4", "5", "6", "7", "8", "9">>
IsDigit(c) == \E d \in 1..Len(DigitChars) : DigitChars[d] = c
DigitValue(c) == (CHOOSE d \in 1..Len(DigitChars) : DigitChars[d] = c) - 1

RECURSIVE Digits(_)
Digits(n) ==
  IF n < Len(DigitChars) THEN <<DigitChars[n + 1]>>
  ELSE Digits(n \div Len(DigitChars)) \o <<DigitChars[(n % Len(DigitChars)) + 1]>>

\* String.prototype.replace(c, '') with a one-character pattern: the first
\* occurrence of c is removed
RECURSIVE ReplaceFirst(_, _)
ReplaceFirst(chars, c) ==
  IF chars = <<>> THEN <<>>
  ELSE IF Head(chars) = c THEN Tail(chars)
  ELSE <<Head(chars)>> \o ReplaceFirst(Tail(chars), c)

\* parseInt(string) on a string without sign or leading white space: the number
\* its leading decimal digits spell, NaN when it begins with none
RECURSIVE LeadingDigits(_, _)
LeadingDigits(chars, acc) ==
  IF chars = <<>> \/ ~IsDigit(Head(chars)) THEN acc
  ELSE LeadingDigits(Tail(chars), acc * Len(DigitChars) + DigitValue(Head(chars)))

ParseInt(chars) ==
  IF chars = <<>> \/ ~IsDigit(Head(chars)) THEN NaN ELSE LeadingDigits(chars, 0)

\* String(v) of a string, a number, undefined, null or a plain object
JsToString(v) ==
  IF v.type \in {"string", "text", "json"} THEN v
  ELSE IF v.type = "number"
    THEN (IF v.val = NaN THEN JsString("NaN") ELSE JsText(Digits(v.val)))
  ELSE IF v.type = "undefined" THEN JsString("undefined")
  ELSE IF v.type = "null" THEN JsString("null")
  ELSE JsString("[object Object]")

\* String.prototype.substring(0, end) on a string held as a sequence of characters
Substring(s, end) == SubSeq(s, 1, Min(end, Len(s)))

-----------------------------------------------------------------------------
(* The configured credentials *)

\* The i-th configured key: 21 characters, the 20th tells the keys apart.
KeyString(i) == [j \in 1..(PrefixLen + 1) |->
                   IF j = PrefixLen THEN i ELSE IF j > PrefixLen THEN 9 ELSE 0]

ApiKeys(n) == [i \in 1..n |-> KeyString(i)]

\* constructor(apiKeys)
NewKeys(apiKeys) ==
  [i \in 1..Len(apiKeys) |->
     [key |-> apiKeys[i], availableAt |-> 0, isBlocked |-> FALSE, errorCount |-> 0]]

-----------------------------------------------------------------------------
(* ApiKeyManager *)

\* A thrown value.  An Error object has inst "Error" and its message, which is a
\* plain string or the JSON text of a document; any other value has inst "value"
\* and is held in `value`.
PlainError(msg) == [inst |-> "Error", message |-> JsString(msg), value |-> JsUndefined]
JsonError(doc) == [inst |-> "Error", message |-> JsonText(doc), value |-> JsUndefined]
ThrownValue(v) == [inst |-> "value", message |-> JsUndefined, value |-> v]

\* TypeError of `keyString.substring(0, 20)` on a keyString that is no string
SubstringTypeError == PlainError("keyString.substring is not a function")
\* TypeError of Array.prototype.reduce on an empty array without initial value
ReduceTypeError == PlainError("Reduce of empty array with no initial value")
\* TypeError of `this.keys[this.currentIndex].key` on an empty array
UndefinedKeyTypeError == PlainError("Cannot read properties of undefined (reading 'key')")

Indices(ks) == 0..(Len(ks) - 1)

\* !k.isBlocked && k.availableAt <= now
IsAvailable(k, t) == ~k.isBlocked /\ JsLeq(k.availableAt, t)

SetMin(S) == CHOOSE x \in S : \A y \in S : x <= y

\* Array.prototype.reduce((prev, curr) => curr.availableAt < prev.availableAt ? curr : prev)
\* over the indices idx (a non-empty sequence), without initial value
RECURSIVE ReduceSoonest(_, _, _, _)
ReduceSoonest(ks, idx, prev, pos) ==
  IF pos > Len(idx) THEN prev
  ELSE ReduceSoonest(ks, idx,
         IF JsLess(ks[idx[pos] + 1].availableAt, ks[prev + 1].availableAt)
           THEN idx[pos] ELSE prev,
         pos + 1)

\* this.keys.filter((k) => !k.isBlocked), as the indices kept, from index i on
RECURSIVE FilterNotBlocked(_, _)
FilterNotBlocked(ks, i) ==
  IF i >= Len(ks) THEN <<>>
  ELSE (IF ~ks[i + 1].isBlocked THEN <<i>> ELSE <<>>) \o FilterNotBlocked(ks, i + 1)

\* The result of getCurrentKey / rotateToNextKey that returns the key at index i
ReturnKey(ks, i) ==
  [threw |-> FALSE, error |-> PlainError(""), index |-> i, key |-> ks[i + 1].key]

\* getCurrentKey with the cooldown left out of the search for an available key
getCurrentKeyIgnoresCooldown(ks, ci, t) ==
  LET avail == {i \in Indices(ks) : ~ks[i + 1].isBlocked}
  IN IF avail # {}
       THEN ReturnKey(ks, SetMin(avail))
       ELSE [threw |-> TRUE, error |-> ReduceTypeError, index |-> ci, key |-> <<>>]

\* getCurrentKey with the search for an available key run from the end of the array
getCurrentKeyFindsLast(ks, ci, t) ==
  LET avail == {i \in Indices(ks) : IsAvailable(ks[i + 1], t)}
      candidates == FilterNotBlocked(ks, 0)
  IN IF avail # {}
       THEN ReturnKey(ks, CHOOSE i \in avail : \A j \in avail : j <= i)
     ELSE IF candidates = <<>>
       THEN [threw |-> TRUE, error |-> ReduceTypeError, index |-> ci, key |-> <<>>]
     ELSE ReturnKey(ks, ReduceSoonest(ks, candidates, candidates[1], 2))

\* getCurrentKey with the first non-blocked key taken when none is available
getCurrentKeyFirstNotBlocked(ks, ci, t) ==
  LET avail == {i \in Indices(ks) : IsAvailable(ks[i + 1], t)}
      candidates == FilterNotBlocked(ks, 0)
  IN IF avail # {}
       THEN ReturnKey(ks, SetMin(avail))
     ELSE IF candidates = <<>>
       THEN [threw |-> TRUE, error |-> ReduceTypeError, index |-> ci, key |-> <<>>]
     ELSE ReturnKey(ks, candidates[1])

\* getCurrentKey that gives up as soon as no key is available
getCurrentKeyThrowsInCooldown(ks, ci, t) ==
  LET avail == {i \in Indices(ks) : IsAvailable(ks[i + 1], t)}
  IN IF avail # {}
       THEN ReturnKey(ks, SetMin(avail))
       ELSE [threw |-> TRUE, error |-> ReduceTypeError, index |-> ci, key |-> <<>>]

\* getCurrentKey that stays with the current key while that one is available
getCurrentKeyPrefersCurrent(ks, ci, t) ==
  LET avail == {i \in Indices(ks) : IsAvailable(ks[i + 1], t)}
      candidates == FilterNotBlocked(ks, 0)
  IN IF ci \in avail
       THEN ReturnKey(ks, ci)
     ELSE IF avail # {}
       THEN ReturnKey(ks, SetMin(avail))
     ELSE IF candidates = <<>>
       THEN [threw |-> TRUE, error |-> ReduceTypeError, index |-> ci, key |-> <<>>]
     ELSE ReturnKey(ks, ReduceSoonest(ks, candidates, candidates[1], 2))

\* getCurrentKey(): the key returned and the currentIndex it leaves, or the throw
getCurrentKey(ks, ci, t) ==
  LET avail == {i \in Indices(ks) : IsAvailable(ks[i + 1], t)}
      candidates == FilterNotBlocked(ks, 0)
  IN IF avail # {}
       THEN ReturnKey(ks, SetMin(avail))
     ELSE IF candidates = <<>>
       THEN [threw |-> TRUE, error |-> ReduceTypeError, index |-> ci, key |-> <<>>]
     ELSE ReturnKey(ks, ReduceSoonest(ks, candidates, candidates[1], 2))

\* findIndex comparing the whole strings: k.key === keyString
FindKeyIndexWholeKey(ks, str) ==
  LET hits == {i \in Indices(ks) : ks[i + 1].key = str}
  IN IF hits = {} THEN 0 - 1 ELSE SetMin(hits)

\* findIndex((k) => k.key.substring(0, 20) === keyString.substring(0, 20)), -1 if none
FindKeyIndex(ks, str) ==
  LET hits == {i \in Indices(ks) :
                 Substring(ks[i + 1].key, PrefixLen) = Substring(str, PrefixLen)}
  IN IF hits = {} THEN 0 - 1 ELSE SetMin(hits)

\* The cooldown's end with the seconds added to the milliseconds as they are
CooldownEndInSeconds(t, retryAfterSeconds) ==
  IF retryAfterSeconds.type = "number"
    THEN t + retryAfterSeconds.val
    ELSE NaN

\* Date.now() + retryAfterSeconds * 1000
CooldownEnd(t, retryAfterSeconds) ==
  IF retryAfterSeconds.type = "number"
    THEN t + retryAfterSeconds.val * MsPerSecond
    ELSE NaN

\* markRateLimited(keyString, retryAfterSeconds): the keys it leaves, or the throw.
\* The findIndex callback evaluates keyString.substring for the first key already,
\* so a keyString that is no string throws unless the array is empty.
markRateLimited(ks, keyString, retryAfterSeconds, t) ==
  IF Len(ks) > 0 /\ keyString.type # "string"
    THEN [threw |-> TRUE, error |-> SubstringTypeError, keys |-> ks, found |-> FALSE]
  ELSE LET keyIndex == IF Len(ks) = 0 THEN 0 - 1 ELSE FindKeyIndex(ks, keyString.val)
       IN IF keyIndex = 0 - 1
            THEN [threw |-> FALSE, error |-> PlainError(""), keys |-> ks, found |-> FALSE]
            ELSE [threw |-> FALSE, error |-> PlainError(""), found |-> TRUE,
                  keys |-> [ks EXCEPT ![keyIndex + 1] =
                              [@ EXCEPT !.availableAt = CooldownEnd(t, retryAfterSeconds),
                                        !.errorCount = @ + 1]]]

\* rotateToNextKey with the scan begun at the current key itself
rotateToNextKeyFromCurrent(ks, ci, t) ==
  LET n == Len(ks)
      steps == {i \in 0..(n - 1) : IsAvailable(ks[((ci + i) % n) + 1], t)}
  IN IF steps # {}
       THEN ReturnKey(ks, (ci + SetMin(steps)) % n)
     ELSE IF ci \in Indices(ks)
       THEN ReturnKey(ks, ci)
     ELSE [threw |-> TRUE, error |-> UndefinedKeyTypeError, index |-> ci, key |-> <<>>]

\* rotateToNextKey that moves on to the next key when the scan finds none
rotateToNextKeyAdvancesAnyway(ks, ci, t) ==
  LET n == Len(ks)
      steps == {i \in 1..n : IsAvailable(ks[((ci + i) % n) + 1], t)}
  IN IF steps # {}
       THEN ReturnKey(ks, (ci + SetMin(steps)) % n)
     ELSE IF ci \in Indices(ks)
       THEN ReturnKey(ks, (ci + 1) % n)
     ELSE [threw |-> TRUE, error |-> UndefinedKeyTypeError, index |-> ci, key |-> <<>>]

\* rotateToNextKey(): the key returned and the currentIndex it leaves, or the throw
rotateToNextKey(ks, ci, t) ==
  LET n == Len(ks)
      steps == {i \in 1..n : IsAvailable(ks[((ci + i) % n) + 1], t)}
  IN IF steps # {}
       THEN ReturnKey(ks, (ci + SetMin(steps)) % n)
     ELSE IF ci \in Indices(ks)
       THEN ReturnKey(ks, ci)
     ELSE [threw |-> TRUE, error |-> UndefinedKeyTypeError, index |-> ci, key |-> <<>>]

\* hasAvailableKey()
hasAvailableKey(ks, t) == \E i \in Indices(ks) : IsAvailable(ks[i + 1], t)

\* getTotalKeys()
getTotalKeys(ks) == Len(ks)

\* getAvailableKeyCount()
getAvailableKeyCount(ks, t) == Cardinality({i \in Indices(ks) : IsAvailable(ks[i + 1], t)})

\* Math.ceil(a / b) for a >= 0 and b > 0
CeilDiv(a, b) == (a + b - 1) \div b

\* this.keys.filter((k) => !k.isBlocked && k.availableAt > now), as indices
CoolingIndices(ks, t) ==
  {i \in Indices(ks) : ~ks[i + 1].isBlocked /\ JsLess(t, ks[i + 1].availableAt)}

\* getSecondsUntilNextAvailable()
getSecondsUntilNextAvailable(ks, t) ==
  IF CoolingIndices(ks, t) = {} THEN 0
  ELSE CeilDiv(SetMin({ks[i + 1].availableAt : i \in CoolingIndices(ks, t)}) - t,
               MsPerSecond)

\* markKeyInvalid(keyIndex?): index = keyIndex ?? this.currentIndex
markKeyInvalid(ks, ci, keyIndex) ==
  LET index == IF keyIndex.type = "undefined" THEN ci ELSE keyIndex.val
  IN IF index \in Indices(ks)
       THEN [ks EXCEPT ![index + 1].isBlocked = TRUE]
       ELSE ks

\* resetErrorCounts that makes every key as new, its blocked flag included
resetErrorCountsUnblocks(ks) ==
  [i \in 1..Len(ks) |-> [ks[i] EXCEPT !.errorCount = 0, !.isBlocked = FALSE]]

\* resetErrorCounts()
resetErrorCounts(ks) == [i \in 1..Len(ks) |-> [ks[i] EXCEPT !.errorCount = 0]]

-----------------------------------------------------------------------------
(* The clock *)

\* Date.now() when the pool is constructed: some instant after the epoch
StartTime == MsPerSecond
EndTime == StartTime + MaxTicks * TickMs

Tick ==
  /\ now < EndTime
  /\ now' = now + TickMs
  /\ ret' = [ret EXCEPT !.op = "tick", !.args = <<>>, !.threw = FALSE, !.key = <<>>]
  /\ UNCHANGED <<keys, currentIndex, ex, appVars>>

-----------------------------------------------------------------------------
(* Failures of the remote call, and parseRateLimitError *)

RetryInfoType == "type.googleapis.com/google.rpc.RetryInfo"

\* A property that a document may lack
Absent == [type |-> "absent", val |-> 0]
NoProps == [name \in {} |-> Absent]
Prop(name, v) == IF v = Absent THEN NoProps ELSE name :> v

\* An element of error.details: a google.rpc.RetryInfo with its retryDelay, and a
\* detail of another type
RetryInfoDetail(retryDelay) ==
  JsObject(Prop("@type", JsString(RetryInfoType)) @@ Prop("retryDelay", retryDelay))
OtherDetail == JsObject(Prop("@type", JsString("type.googleapis.com/google.rpc.Help")))

\* The body of an error response: {error: {code, message, details}}
ApiErrorDoc(code, message, details) ==
  JsObject(Prop("error", JsObject(Prop("code", code) @@ Prop("message", message)
                                    @@ Prop("details", details))))

\* A duration of s whole seconds as the API writes it: "<s>s"
Duration(s) == JsText(Digits(s) \o <<"s">>)

\* An ApiError whose message is the JSON body of a 429 response carrying a
\* google.rpc.RetryInfo detail with retryDelay "<s>s"
RateLimitError(s) ==
  JsonError(ApiErrorDoc(JsNumber(429), JsString("Resource has been exhausted"),
                        JsArray(<<RetryInfoDetail(Duration(s))>>)))

\* A 429 response without RetryInfo detail
QuotaErrorNoRetryInfo ==
  JsonError(ApiErrorDoc(JsNumber(429), JsString("Quota exceeded"), Absent))

\* The API rejects the key: 403 PERMISSION_DENIED (400 API_KEY_INVALID and
\* 404 NOT_FOUND have the same shape)
InvalidKeyError ==
  JsonError(ApiErrorDoc(JsNumber(403), JsString("Permission denied"), Absent))

\* generateAudioFromText's own throw
NoAudioError == PlainError("No audio data received from the API.")

MaxRetriesError == PlainError("Max retries exceeded")

WorkRetrySeconds == {1, 12}

WorkFailures ==
  {RateLimitError(s) : s \in WorkRetrySeconds}
    \cup {QuotaErrorNoRetryInfo, InvalidKeyError, NoAudioError}

\* details.find((d) => d['@type'] === RetryInfoType) from position pos: the
\* element found (undefined when there is none), or the TypeError of reading a
\* property of null
RECURSIVE FindRetryInfo(_, _)
FindRetryInfo(items, pos) ==
  IF pos > Len(items) THEN [threw |-> FALSE, found |-> JsUndefined]
  ELSE IF Nullish(items[pos]) THEN [threw |-> TRUE, found |-> JsUndefined]
  ELSE IF GetProp(items[pos], "@type") = JsString(RetryInfoType)
    THEN [threw |-> FALSE, found |-> items[pos]]
  ELSE FindRetryInfo(items, pos + 1)

\* ?.retryDelay of what find returned (line 54)
DelayOfFound(hit) ==
  IF hit.threw THEN [threw |-> TRUE, retryDelay |-> JsUndefined]
  ELSE IF Nullish(hit.found) THEN [threw |-> FALSE, retryDelay |-> JsUndefined]
  ELSE [threw |-> FALSE, retryDelay |-> GetProp(hit.found, "retryDelay")]

\* details?.find(...)?.retryDelay (lines 52-54): the value read, or the
\* TypeError of calling find on a value that has none
DelayOfDetails(details) ==
  IF Nullish(details) THEN [threw |-> FALSE, retryDelay |-> JsUndefined]
  ELSE IF details.type # "array" THEN [threw |-> TRUE, retryDelay |-> JsUndefined]
  ELSE DelayOfFound(FindRetryInfo(details.val, 1))

\* errorJson.error.details?.find(...)?.retryDelay (lines 52-54)
ReadRetryDelay(err) == DelayOfDetails(GetProp(err, "details"))

\* What parseRateLimitError returns; threw tells that it threw instead
Classified(isRateLimit, retryAfterSeconds, errorMsg) ==
  [threw |-> FALSE, isRateLimit |-> isRateLimit,
   retryAfterSeconds |-> retryAfterSeconds, errorMsg |-> errorMsg]
ClassifierThrew == [Classified(FALSE, 0, JsUndefined) EXCEPT !.threw = TRUE]

\* The return of lines 65-69: errorJson.error?.message || error.message
OtherResult(inner, message) ==
  Classified(FALSE, 0, IF Truthy(inner) THEN inner ELSE message)

\* Lines 56-69 with the retryDelay that lines 52-54 read from a 429
OnRetryDelay(read, inner, message, caught) ==
  IF read.threw THEN caught
  ELSE IF ~Truthy(read.retryDelay) THEN OtherResult(inner, message)
  ELSE IF read.retryDelay.type # "text" THEN caught
  ELSE Classified(TRUE, ParseInt(ReplaceFirst(read.retryDelay.val, "s")),
                  JsString("Rate limit exceeded"))

\* Lines 51-69 with err, the value of errorJson.error
OnErrorJson(err, message, caught) ==
  IF Nullish(err) THEN OtherResult(JsUndefined, message)
  ELSE IF GetProp(err, "code") # JsNumber(429)
    THEN OtherResult(GetProp(err, "message"), message)
  ELSE OnRetryDelay(ReadRetryDelay(err), GetProp(err, "message"), message, caught)

\* The try block (lines 50-69) on the parsed document; caught is what the catch
\* block returns, taken whenever a read in the block throws
TryBlock(errorJson, message, caught) ==
  IF Nullish(errorJson) THEN caught
  ELSE OnErrorJson(GetProp(errorJson, "error"), message, caught)

\* parseRateLimitError whose catch block handles the SyntaxError of JSON.parse
\* only: a TypeError raised in the try block leaves the function
parseRateLimitErrorCatchesSyntaxOnly(error) ==
  IF error.inst # "Error" THEN Classified(FALSE, 0, JsToString(error.value))
  ELSE IF error.message.type # "json" THEN Classified(FALSE, 0, error.message)
  ELSE TryBlock(error.message.val, error.message, ClassifierThrew)

\* parseRateLimitError with every 429 taken as a rate limit, of 0 seconds when
\* it names no retry delay
parseRateLimitErrorOfAny429(error) ==
  LET r == IF error.inst # "Error" THEN Classified(FALSE, 0, JsToString(error.value))
           ELSE IF error.message.type # "json" THEN Classified(FALSE, 0, error.message)
           ELSE TryBlock(error.message.val, error.message,
                         Classified(FALSE, 0, error.message))
      is429 == /\ error.inst = "Error"
               /\ error.message.type = "json"
               /\ ~Nullish(error.message.val)
               /\ ~Nullish(GetProp(error.message.val, "error"))
               /\ GetProp(GetProp(error.message.val, "error"), "code") = JsNumber(429)
  IN IF is429 /\ ~r.isRateLimit
       THEN Classified(TRUE, 0, JsString("Rate limit exceeded"))
       ELSE r

parseRateLimitError(error) ==
  IF error.inst # "Error" THEN Classified(FALSE, 0, JsToString(error.value))
  ELSE IF error.message.type # "json" THEN Classified(FALSE, 0, error.message)
  ELSE TryBlock(error.message.val, error.message, Classified(FALSE, 0, error.message))

-----------------------------------------------------------------------------
(* generateSingleAudio *)

\* The call sites of generateSingleAudio: a run of handleGenerateAllAudio and a
\* run of retryAudioClip
BatchRuns == {"batch"}
RetryRuns == {"retry"}
CallSites == BatchRuns \cup RetryRuns

\* An activation of generateSingleAudio.  pc: "idle" (not running), "call"
\* (awaiting generateAudioFromText), "sleep" (awaiting setTimeout), "returned",
\* "threw".  calls counts the invocations of generateAudioFromText, caught lists
\* the errors its catch block received, thrown is the error the activation threw.
IdleExec ==
  [pc |-> "idle", attempt |-> 0, maxRetries |-> 0, currentKey |-> <<>>,
   wakeAt |-> 0, caught |-> <<>>, thrown |-> PlainError(""), calls |-> 0]

Throw(e, error) == [e EXCEPT !.pc = "threw", !.thrown = error]

Sleep(e, t, ms) == [e EXCEPT !.pc = "sleep", !.wakeAt = t + ms]

\* The rate-limit branch of the catch block (lines 90-108, and the throw of line
\* 111 it falls through to): the mark, then rotation, a bounded wait, or the throw
OnRateLimit(e, error, retryAfterSeconds, ks, ci, t) ==
  LET marked == markRateLimited(ks, JsNumber(retryAfterSeconds), JsUndefined, t)
  IN IF marked.threw
       THEN [ex |-> Throw(e, marked.error), keys |-> ks, currentIndex |-> ci]
     ELSE IF getTotalKeys(marked.keys) > 1 /\ hasAvailableKey(marked.keys, t)
       THEN LET rotated == rotateToNextKey(marked.keys, ci, t)
            IN [ex |-> Sleep(e, t, RotateDelayMs), keys |-> marked.keys,
                currentIndex |-> rotated.index]
     ELSE IF e.attempt < e.maxRetries
       THEN [ex |-> Sleep(e, t, Min(retryAfterSeconds, MaxWaitSeconds) * MsPerSecond),
             keys |-> marked.keys, currentIndex |-> ci]
     ELSE [ex |-> Throw(e, error), keys |-> marked.keys, currentIndex |-> ci]

\* CatchBlock with a failure that is no rate limit retried after a short wait
\* while attempts remain, instead of thrown
CatchBlockRetriesOther(e, error, ks, ci, t) ==
  LET parsed == parseRateLimitError(error)
      e1 == [e EXCEPT !.caught = Append(@, error)]
  IN IF parsed.isRateLimit
       THEN OnRateLimit(e1, error, parsed.retryAfterSeconds, ks, ci, t)
     ELSE IF e.attempt < e.maxRetries
       THEN [ex |-> Sleep(e1, t, RotateDelayMs), keys |-> ks, currentIndex |-> ci]
     ELSE [ex |-> Throw(e1, error), keys |-> ks, currentIndex |-> ci]

\* The catch block (lines 87-112) up to its await or throw: the activation, the
\* keys and the currentIndex it leaves
CatchBlock(e, error, ks, ci, t) ==
  LET parsed == parseRateLimitError(error)
      e1 == [e EXCEPT !.caught = Append(@, error)]
  IN IF parsed.isRateLimit
       THEN OnRateLimit(e1, error, parsed.retryAfterSeconds, ks, ci, t)
       ELSE [ex |-> Throw(e1, error), keys |-> ks, currentIndex |-> ci]

\* The for loop from its condition (line 82) to the await of line 85, or to the
\* throw that ends the activation
LoopHead(e, ks, ci, t) ==
  LET got == getCurrentKey(ks, ci, t)
  IN IF ~(e.attempt <= e.maxRetries)
       THEN [ex |-> Throw(e, MaxRetriesError), keys |-> ks, currentIndex |-> ci]
     ELSE IF got.threw
       THEN CatchBlock(e, got.error, ks, ci, t)
     ELSE [ex |-> [e EXCEPT !.pc = "call", !.currentKey = got.key, !.calls = @ + 1],
           keys |-> ks, currentIndex |-> got.index]

\* generateSingleAudio(text, maxRetries) is called and runs to its first await
Enter(p, maxRetries) ==
  LET r == LoopHead([IdleExec EXCEPT !.maxRetries = maxRetries], keys, currentIndex, now)
  IN /\ ex[p].pc = "idle"
     /\ ex' = [ex EXCEPT ![p] = r.ex]
     /\ keys' = r.keys
     /\ currentIndex' = r.currentIndex

\* What the awaited promise of an activation settles to: the remote call returns
\* a blob or fails, or the timer fires
Fulfilled(what) == [kind |-> what, error |-> PlainError("")]
Rejected(error) == [kind |-> "error", error |-> error]

Settlements(e) ==
  IF e.pc = "call" THEN {Fulfilled("blob")} \cup {Rejected(f) : f \in WorkFailures}
  ELSE IF e.pc = "sleep" /\ now >= e.wakeAt THEN {Fulfilled("timeout")}
  ELSE {}

\* Resumed with a failed remote call tried again at once, the attempt not counted
ResumedRetriesUncounted(e, settled, ks, ci, t) ==
  IF settled.kind = "blob"
    THEN [ex |-> [e EXCEPT !.pc = "returned"], keys |-> ks, currentIndex |-> ci]
  ELSE LoopHead([e EXCEPT !.caught = Append(@, settled.error)], ks, ci, t)

\* The activation resumes after its await and runs to the next await, its return
\* or its throw
Resumed(e, settled, ks, ci, t) ==
  IF settled.kind = "blob"
    THEN [ex |-> [e EXCEPT !.pc = "returned"], keys |-> ks, currentIndex |-> ci]
  ELSE IF settled.kind = "timeout"
    THEN LoopHead([e EXCEPT !.attempt = @ + 1], ks, ci, t)
  ELSE CatchBlock(e, settled.error, ks, ci, t)

Resume(p) ==
  \E settled \in Settlements(ex[p]) :
    LET r == Resumed(ex[p], settled, keys, currentIndex, now)
    IN /\ ex' = [ex EXCEPT ![p] = r.ex]
       /\ keys' = r.keys
       /\ currentIndex' = r.currentIndex
       /\ UNCHANGED <<now, ret, appVars>>

-----------------------------------------------------------------------------
(* The state of App and useAudioGeneration *)

NoScript == <<"null">>

\* ScriptEntry.text values: a line to speak, and a whitespace-only line
Texts == {"Hello there", "   "}

\* String.prototype.trim
Trim(text) == IF text = "   " THEN "" ELSE text

\* The scripts of at most n entries, the empty array included
ScriptsUpTo(n) == UNION {[1..k -> Texts] : k \in 0..n}

\* The scripts the hook is given, and those generateScriptFromVideo returns
Scripts == ScriptsUpTo(MaxItems)
GeneratedScripts == ScriptsUpTo(MaxGenerated)

\* An element of audioData: null, undefined (an index never written, left by
\* `updated[i] = ...` beyond the array's end), or an AudioData object
NullSlot ==
  [kind |-> "null", url |-> "", isLoading |-> FALSE, error |-> JsUndefined,
   retryAfter |-> JsUndefined]
UndefinedSlot == [NullSlot EXCEPT !.kind = "undefined"]
\* {url: '', blob: new Blob(), isLoading: true}
LoadingClip == [NullSlot EXCEPT !.kind = "object", !.isLoading = TRUE]
\* {url: audioUrl, blob: audioBlob}
AudioClip == [NullSlot EXCEPT !.kind = "object", !.url = "blob:audio"]
\* {url: '', blob: new Blob(), error: errorMsg, retryAfter: ...} built from clipError
FailedClip(clipError, t) ==
  LET parsed == parseRateLimitError(clipError)
  IN [NullSlot EXCEPT !.kind = "object",
                      !.error = parsed.errorMsg,
                      !.retryAfter = IF parsed.retryAfterSeconds > 0
                                       THEN JsNumber(t + parsed.retryAfterSeconds * MsPerSecond)
                                       ELSE JsUndefined]

\* The counts AudioResults shows: audioData.filter((a) => a && a.url && !a.error
\* && !a.isLoading), .filter((a) => a && a.error), .filter((a) => a !== null)
successCount(ad) ==
  Cardinality({k \in DOMAIN ad : /\ ad[k].kind = "object"
                                 /\ ad[k].url # ""
                                 /\ ~Truthy(ad[k].error)
                                 /\ ~ad[k].isLoading})
errorCount(ad) ==
  Cardinality({k \in DOMAIN ad : ad[k].kind = "object" /\ Truthy(ad[k].error)})
totalNonEmpty(ad) == Cardinality({k \in DOMAIN ad : ad[k].kind # "null"})

\* script.map((entry) => entry.text.trim() ? {..., isLoading: true} : null)
InitialAudioData(sc) ==
  [k \in 1..Len(sc) |-> IF Trim(sc[k]) # "" THEN LoadingClip ELSE NullSlot]

\* const updated = [...prev]; updated[i] = slot
WriteSlot(prev, i, slot) ==
  [k \in 1..(IF i + 1 > Len(prev) THEN i + 1 ELSE Len(prev)) |->
     IF k = i + 1 THEN slot ELSE IF k <= Len(prev) THEN prev[k] ELSE UndefinedSlot]

\* How a call of generateSingleAudio for item i ended, and the failures its
\* catch block caught on the way
Outcome(i, e) ==
  [i |-> i, returned |-> e.pc = "returned", thrown |-> e.thrown, caught |-> e.caught]
NoOutcome ==
  [i |-> 0 - 1, returned |-> FALSE, thrown |-> PlainError(""), caught |-> <<>>]

\* A run of handleGenerateAllAudio or retryAudioClip.  pc: "idle" (not running),
\* "exec" (awaiting generateSingleAudio), "pacing" (awaiting the delay between
\* items); script is the array its closure holds, i the index it works on.
\* last is history: how the call of generateSingleAudio that the run awaited
\* last ended; it is kept when the run is over.  stale is history too: a run of
\* handleGenerateAllAudio has started since this run started.
IdleRun ==
  [pc |-> "idle", script |-> NoScript, i |-> 0, wakeAt |-> 0, last |-> NoOutcome,
   stale |-> FALSE]

\* A run as it is once a run of handleGenerateAllAudio has started beside it
Overtaken(r) == IF r.pc = "idle" THEN r ELSE [r EXCEPT !.stale = TRUE]

AppInit ==
  /\ videoFile = FALSE
  /\ script = NoScript
  /\ isLoadingScript = FALSE
  /\ audioData = <<>>
  /\ isLoadingAudio = FALSE
  /\ run = [p \in CallSites |-> IdleRun]

-----------------------------------------------------------------------------
(* generateSingleAudio called with any retry budget, over the pool the app builds *)

ExecInit ==
  /\ \E n \in 1..MaxKeys : keys = NewKeys(ApiKeys(n))
  /\ currentIndex = 0
  /\ now = StartTime
  /\ ret = [op |-> "new", args |-> <<>>, threw |-> FALSE, key |-> <<>>, count |-> 0]
  /\ ex = [p \in CallSites |-> IdleExec]
  /\ AppInit

Invoke(p) ==
  \E maxRetries \in 0..MaxRetriesBound :
    /\ Enter(p, maxRetries)
    /\ UNCHANGED <<now, ret, appVars>>

\* The caller takes the result of a finished activation
Settle(p) ==
  /\ ex[p].pc \in {"returned", "threw"}
  /\ ex' = [ex EXCEPT ![p] = IdleExec]
  /\ UNCHANGED <<keys, currentIndex, now, ret, appVars>>

ExecNext ==
  \/ \E p \in CallSites : Invoke(p)
  \/ \E p \in CallSites : Resume(p)
  \/ \E p \in CallSites : Settle(p)
  \/ Tick

ExecSpec == ExecInit /\ [][ExecNext]_vars

-----------------------------------------------------------------------------
(* The pool used directly through its public methods *)

RetrySeconds == {1, 2}

\* What a caller holds as the identity of a key: a configured key, a configured
\* key cut after its first PrefixLen characters, or a string that is none of the
\* configured keys
KnownIdentities(ks) ==
  {ks[i + 1].key : i \in Indices(ks)}
    \cup {Substring(ks[i + 1].key, PrefixLen) : i \in Indices(ks)}
    \cup {KeyString(0)}

\* The record of a call: the method, its arguments, whether it threw, how many
\* calls were made, and the key it returned (<<>> for a method that returns nothing)
Returned(op, args, threw, key) ==
  [op |-> op, args |-> args, threw |-> threw, key |-> key, count |-> ret.count + 1]

PoolInit ==
  /\ \E n \in 0..MaxKeys : keys = NewKeys(ApiKeys(n))
  /\ currentIndex = 0
  /\ now = StartTime
  /\ ret = [op |-> "new", args |-> <<>>, threw |-> FALSE, key |-> <<>>, count |-> 0]
  /\ ex = [p \in CallSites |-> IdleExec]
  /\ AppInit

CallGetCurrentKey ==
  LET r == getCurrentKey(keys, currentIndex, now)
  IN /\ ret.count < MaxCalls
     /\ currentIndex' = r.index
     /\ ret' = Returned("getCurrentKey", <<>>, r.threw, r.key)
     /\ UNCHANGED <<keys, now, ex, appVars>>

CallMarkRateLimited ==
  \E str \in KnownIdentities(keys), s \in RetrySeconds :
    LET r == markRateLimited(keys, JsString(str), JsNumber(s), now)
    IN /\ ret.count < MaxCalls
       /\ keys' = r.keys
       /\ ret' = Returned("markRateLimited", <<str, s>>, r.threw, <<>>)
       /\ UNCHANGED <<currentIndex, now, ex, appVars>>

CallRotateToNextKey ==
  LET r == rotateToNextKey(keys, currentIndex, now)
  IN /\ ret.count < MaxCalls
     /\ currentIndex' = r.index
     /\ ret' = Returned("rotateToNextKey", <<>>, r.threw, r.key)
     /\ UNCHANGED <<keys, now, ex, appVars>>

CallMarkKeyInvalid ==
  \E keyIndex \in {JsUndefined} \cup {JsNumber(i) : i \in Indices(keys)} :
    /\ ret.count < MaxCalls
    /\ keys' = markKeyInvalid(keys, currentIndex, keyIndex)
    /\ ret' = Returned("markKeyInvalid", <<keyIndex>>, FALSE, <<>>)
    /\ UNCHANGED <<currentIndex, now, ex, appVars>>

CallResetErrorCounts ==
  /\ ret.count < MaxCalls
  /\ keys' = resetErrorCounts(keys)
  /\ ret' = Returned("resetErrorCounts", <<>>, FALSE, <<>>)
  /\ UNCHANGED <<currentIndex, now, ex, appVars>>

\* The call records the number it returned in the field seconds
CallGetSecondsUntilNextAvailable ==
  /\ ret.count < MaxCalls
  /\ ret' = [op |-> "getSecondsUntilNextAvailable", args |-> <<>>, threw |-> FALSE,
             key |-> <<>>, count |-> ret.count + 1,
             seconds |-> getSecondsUntilNextAvailable(keys, now)]
  /\ UNCHANGED <<keys, currentIndex, now, ex, appVars>>

PoolNext ==
  \/ CallGetCurrentKey
  \/ CallMarkRateLimited
  \/ CallRotateToNextKey
  \/ CallMarkKeyInvalid
  \/ CallResetErrorCounts
  \/ CallGetSecondsUntilNextAvailable
  \/ Tick

PoolSpec == PoolInit /\ [][PoolNext]_vars

-----------------------------------------------------------------------------
(* useApiKeyManager: the pool built from the environment *)

\* The characters of a configuration string: two letters, the blank, the comma
ConfigChars == {"a", "b", " ", ","}

\* The strings of at most n characters
StringsUpTo(n) == UNION {[1..k -> ConfigChars] : k \in 0..n}

\* String.prototype.split(sep); cur is the piece being read
RECURSIVE SplitAt(_, _, _)
SplitAt(chars, sep, cur) ==
  IF chars = <<>> THEN <<cur>>
  ELSE IF Head(chars) = sep THEN <<cur>> \o SplitAt(Tail(chars), sep, <<>>)
  ELSE SplitAt(Tail(chars), sep, Append(cur, Head(chars)))

Split(chars, sep) == SplitAt(chars, sep, <<>>)

\* String.prototype.trim on a string whose only white space is the blank
RECURSIVE TrimStart(_)
TrimStart(chars) ==
  IF chars # <<>> /\ Head(chars) = " " THEN TrimStart(Tail(chars)) ELSE chars

RECURSIVE TrimEnd(_)
TrimEnd(chars) ==
  IF chars # <<>> /\ chars[Len(chars)] = " "
    THEN TrimEnd(SubSeq(chars, 1, Len(chars) - 1))
    ELSE chars

TrimChars(chars) == TrimEnd(TrimStart(chars))

\* pieces.map((k) => k.trim())
MapTrim(pieces) == [i \in 1..Len(pieces) |-> TrimChars(pieces[i])]

\* process.env.API_KEY || process.env.GEMINI_API_KEY || ''
ApiKeysString(apiKey, geminiApiKey) ==
  IF Truthy(apiKey) THEN apiKey.val
  ELSE IF Truthy(geminiApiKey) THEN geminiApiKey.val
  ELSE <<>>

\* The configured keys with the entries left as they were written, blanks included
ConfiguredKeysUntrimmed(apiKeysString) ==
  SelectSeq(Split(apiKeysString, ","), LAMBDA k : Len(k) > 0)

\* apiKeysString.split(',').map((k) => k.trim()).filter((k) => k.length > 0)
ConfiguredKeys(apiKeysString) ==
  SelectSeq(MapTrim(Split(apiKeysString, ",")), LAMBDA k : Len(k) > 0)

\* The keys of the ApiKeyManager that useApiKeyManager constructs
PoolOfKeys(apiKeys) ==
  IF Len(apiKeys) = 0 THEN NewKeys(<< <<>> >>) ELSE NewKeys(apiKeys)

useApiKeyManager(apiKey, geminiApiKey) ==
  PoolOfKeys(ConfiguredKeys(ApiKeysString(apiKey, geminiApiKey)))

\* The values of the two environment variables
EnvApiKey == {JsUndefined} \cup {JsText(str) : str \in StringsUpTo(MaxConfigLen)}
EnvGeminiApiKey == {JsUndefined, JsText(<<"b">>), JsText(<<" ", ",">>)}

\* Before the first render: the environment is set, no pool is constructed
ConfigInit ==
  /\ keys = <<>>
  /\ currentIndex = 0
  /\ now = StartTime
  /\ \E apiKey \in EnvApiKey, geminiApiKey \in EnvGeminiApiKey :
       ret = [op |-> "env", args |-> <<apiKey, geminiApiKey>>, threw |-> FALSE,
              key |-> <<>>, count |-> 0]
  /\ ex = [p \in CallSites |-> IdleExec]
  /\ AppInit

\* The first render of App: useMemo runs the factory
CallUseApiKeyManager ==
  /\ ret.op = "env"
  /\ keys' = useApiKeyManager(ret.args[1], ret.args[2])
  /\ ret' = [ret EXCEPT !.op = "useApiKeyManager", !.count = @ + 1]
  /\ UNCHANGED <<currentIndex, now, ex, appVars>>

ConfigNext == CallUseApiKeyManager

ConfigSpec == ConfigInit /\ [][ConfigNext]_vars

-----------------------------------------------------------------------------
(* parseRateLimitError called with any value a catch block may be handed *)

\* Values of retryDelay: none, null, a number, the empty string, "<s>s"
RetryDelays ==
  {Absent, JsNull, JsNumber(12), JsText(<<>>)}
    \cup {Duration(s) : s \in {0} \cup WorkRetrySeconds}

\* Values of error.details
DetailLists ==
  {Absent, JsNull, JsString("none"), JsArray(<<>>), JsArray(<<JsNull>>),
   JsArray(<<OtherDetail>>), JsArray(<<RetryInfoDetail(Duration(1)), JsNull>>)}
    \cup {JsArray(<<RetryInfoDetail(r)>>) : r \in RetryDelays}
    \cup {JsArray(<<OtherDetail, RetryInfoDetail(r)>>) : r \in RetryDelays}

\* Values of error.code and error.message
Codes == {Absent, JsNumber(429), JsNumber(403), JsString("429")}
InnerMessages == {Absent, JsString("Quota exceeded"), JsString("")}

\* Documents that an Error's message may be the JSON text of
Documents ==
  {JsNull, JsNumber(429), JsString("Service unavailable"), JsArray(<<>>),
   JsObject(NoProps), JsObject(Prop("error", JsNull)),
   JsObject(Prop("error", JsString("boom")))}
    \cup {ApiErrorDoc(c, m, d) : c \in Codes, m \in InnerMessages, d \in DetailLists}

ThrownValues ==
  {JsonError(doc) : doc \in Documents}
    \cup {NoAudioError, MaxRetriesError, SubstringTypeError, ReduceTypeError,
          PlainError("Failed to fetch"), PlainError("")}
    \cup {ThrownValue(v) : v \in {JsString("boom"), JsNumber(429), JsUndefined, JsNull,
                                  JsObject(Prop("code", JsNumber(429)))}}

\* A catch block holds a thrown value
ClassifierInit ==
  /\ keys = NewKeys(ApiKeys(1))
  /\ currentIndex = 0
  /\ now = StartTime
  /\ \E error \in ThrownValues :
       ret = [op |-> "catch", args |-> <<error>>, threw |-> FALSE,
              result |-> Classified(FALSE, 0, JsUndefined), count |-> 0]
  /\ ex = [p \in CallSites |-> IdleExec]
  /\ AppInit

\* const {...} = parseRateLimitError(error)
CallParseRateLimitError ==
  LET r == parseRateLimitError(ret.args[1])
  IN /\ ret.op = "catch"
     /\ ret' = [op |-> "parseRateLimitError", args |-> ret.args, threw |-> r.threw,
                result |-> r, count |-> ret.count + 1]
     /\ UNCHANGED <<keys, currentIndex, now, ex, appVars>>

ClassifierNext == CallParseRateLimitError

ClassifierSpec == ClassifierInit /\ [][ClassifierNext]_vars

-----------------------------------------------------------------------------
(* App and useAudioGeneration: the program as the user drives it.  A step is   *)
(* what runs between two awaits; a promise that is already settled when it is  *)
(* awaited is continued in the same step.                                      *)

\* What a run reads and writes.  ex is the activation of generateSingleAudio the
\* run awaits; it is IdleExec again once the run has taken its result.
RunState(p) ==
  [audioData |-> audioData, isLoadingAudio |-> isLoadingAudio, ex |-> ex[p],
   run |-> run[p], keys |-> keys, currentIndex |-> currentIndex]

Commit(p, st) ==
  /\ audioData' = st.audioData
  /\ isLoadingAudio' = st.isLoadingAudio
  /\ ex' = [ex EXCEPT ![p] = st.ex]
  /\ run' = [run EXCEPT ![p] = st.run]
  /\ keys' = st.keys
  /\ currentIndex' = st.currentIndex

\* generateSingleAudio(entry.text) run to its first await
Started(st, t) ==
  LET r == LoopHead([IdleExec EXCEPT !.maxRetries = DefaultMaxRetries],
                    st.keys, st.currentIndex, t)
  IN [st EXCEPT !.ex = r.ex, !.keys = r.keys, !.currentIndex = r.currentIndex]

\* The awaited generateSingleAudio continued with what its promise settled to
Continued(st, settled, t) ==
  LET r == Resumed(st.ex, settled, st.keys, st.currentIndex, t)
  IN [st EXCEPT !.ex = r.ex, !.keys = r.keys, !.currentIndex = r.currentIndex]

Finished(e) == e.pc \in {"returned", "threw"}

\* The for loop of handleGenerateAllAudio from index i to its next await, or
\* through the finally block
RECURSIVE BatchFrom(_, _, _, _)
BatchFrom(sc, i, st, t) ==
  IF ~(i < Len(sc))
    THEN [st EXCEPT !.isLoadingAudio = FALSE, !.run = [IdleRun EXCEPT !.last = st.run.last]]
  ELSE IF Trim(sc[i + 1]) = ""
    THEN BatchFrom(sc, i + 1, st, t)
  ELSE LET st1 == Started(st, t)
       IN IF st1.ex.pc = "threw"
            THEN BatchFrom(sc, i + 1,
                           [st1 EXCEPT !.audioData =
                                         WriteSlot(@, i, FailedClip(st1.ex.thrown, t)),
                                       !.ex = IdleExec,
                                       !.run.last = Outcome(i, st1.ex)],
                           t)
            ELSE [st1 EXCEPT !.run = [st.run EXCEPT !.pc = "exec", !.script = sc,
                                                    !.i = i, !.wakeAt = 0]]

\* BatchAfter with the loop left through the finally block when an item fails
BatchAfterStopsOnFailure(sc, i, st, t) ==
  IF st.ex.pc = "returned"
    THEN LET st1 == [st EXCEPT !.audioData = WriteSlot(@, i, AudioClip),
                               !.ex = IdleExec,
                               !.run.last = Outcome(i, st.ex)]
         IN IF i < Len(sc) - 1
              THEN [st1 EXCEPT !.run = [st1.run EXCEPT !.pc = "pacing", !.script = sc,
                                                       !.i = i,
                                                       !.wakeAt = t + PacingDelayMs]]
              ELSE BatchFrom(sc, i + 1, st1, t)
    ELSE BatchFrom(sc, Len(sc),
                   [st EXCEPT !.audioData = WriteSlot(@, i, FailedClip(st.ex.thrown, t)),
                              !.ex = IdleExec,
                              !.run.last = Outcome(i, st.ex)],
                   t)

\* BatchAfter with the item after a failed one left out
BatchAfterSkipsItem(sc, i, st, t) ==
  IF st.ex.pc = "returned"
    THEN LET st1 == [st EXCEPT !.audioData = WriteSlot(@, i, AudioClip),
                               !.ex = IdleExec,
                               !.run.last = Outcome(i, st.ex)]
         IN IF i < Len(sc) - 1
              THEN [st1 EXCEPT !.run = [st1.run EXCEPT !.pc = "pacing", !.script = sc,
                                                       !.i = i,
                                                       !.wakeAt = t + PacingDelayMs]]
              ELSE BatchFrom(sc, i + 1, st1, t)
    ELSE BatchFrom(sc, i + 2,
                   [st EXCEPT !.audioData = WriteSlot(@, i, FailedClip(st.ex.thrown, t)),
                              !.ex = IdleExec,
                              !.run.last = Outcome(i, st.ex)],
                   t)

\* BatchAfter with setIsLoadingAudio(false) in the catch block of an item
BatchAfterFlagOffOnFailure(sc, i, st, t) ==
  IF st.ex.pc = "returned"
    THEN LET st1 == [st EXCEPT !.audioData = WriteSlot(@, i, AudioClip),
                               !.ex = IdleExec,
                               !.run.last = Outcome(i, st.ex)]
         IN IF i < Len(sc) - 1
              THEN [st1 EXCEPT !.run = [st1.run EXCEPT !.pc = "pacing", !.script = sc,
                                                       !.i = i,
                                                       !.wakeAt = t + PacingDelayMs]]
              ELSE BatchFrom(sc, i + 1, st1, t)
    ELSE BatchFrom(sc, i + 1,
                   [st EXCEPT !.audioData = WriteSlot(@, i, FailedClip(st.ex.thrown, t)),
                              !.isLoadingAudio = FALSE,
                              !.ex = IdleExec,
                              !.run.last = Outcome(i, st.ex)],
                   t)

\* The loop body after generateSingleAudio of item i has finished
BatchAfter(sc, i, st, t) ==
  IF st.ex.pc = "returned"
    THEN LET st1 == [st EXCEPT !.audioData = WriteSlot(@, i, AudioClip),
                               !.ex = IdleExec,
                               !.run.last = Outcome(i, st.ex)]
         IN IF i < Len(sc) - 1
              THEN [st1 EXCEPT !.run = [st1.run EXCEPT !.pc = "pacing", !.script = sc,
                                                       !.i = i,
                                                       !.wakeAt = t + PacingDelayMs]]
              ELSE BatchFrom(sc, i + 1, st1, t)
    ELSE BatchFrom(sc, i + 1,
                   [st EXCEPT !.audioData = WriteSlot(@, i, FailedClip(st.ex.thrown, t)),
                              !.ex = IdleExec,
                              !.run.last = Outcome(i, st.ex)],
                   t)

\* RetryAfter with the new array built without the other failed items
RetryAfterDropsFailures(index, st, t) ==
  [st EXCEPT !.audioData = WriteSlot([k \in 1..Len(@) |->
                                        IF Truthy(@[k].error) THEN NullSlot ELSE @[k]],
                                     index,
                                     IF st.ex.pc = "returned"
                                       THEN AudioClip
                                       ELSE FailedClip(st.ex.thrown, t)),
             !.ex = IdleExec,
             !.run = [IdleRun EXCEPT !.last = Outcome(index, st.ex)]]

\* RetryAfter with the result dropped when the item is no longer Loading
RetryAfterKeepsNewer(index, st, t) ==
  [st EXCEPT !.audioData = IF index < Len(@) /\ ~@[index + 1].isLoading
                             THEN @
                             ELSE WriteSlot(@, index,
                                            IF st.ex.pc = "returned"
                                              THEN AudioClip
                                              ELSE FailedClip(st.ex.thrown, t)),
             !.ex = IdleExec,
             !.run = [IdleRun EXCEPT !.last = Outcome(index, st.ex)]]

\* retryAudioClip after generateSingleAudio has finished
RetryAfter(index, st, t) ==
  [st EXCEPT !.audioData = WriteSlot(@, index,
                                     IF st.ex.pc = "returned"
                                       THEN AudioClip
                                       ELSE FailedClip(st.ex.thrown, t)),
             !.ex = IdleExec,
             !.run = [IdleRun EXCEPT !.last = Outcome(index, st.ex)]]

\* The "Generate Audio" button, enabled while isLoadingAudio is false
GenerateAll(p) ==
  /\ run[p].pc = "idle"
  /\ ~isLoadingAudio
  /\ script # NoScript
  /\ LET st == BatchFrom(script, 0,
                         [RunState(p) EXCEPT !.isLoadingAudio = TRUE,
                                             !.audioData = InitialAudioData(script),
                                             !.run = IdleRun],
                         now)
     IN /\ audioData' = st.audioData
        /\ isLoadingAudio' = st.isLoadingAudio
        /\ ex' = [ex EXCEPT ![p] = st.ex]
        /\ run' = [q \in CallSites |-> IF q = p THEN st.run ELSE Overtaken(run[q])]
        /\ keys' = st.keys
        /\ currentIndex' = st.currentIndex
  /\ UNCHANGED <<now, ret, videoFile, script, isLoadingScript>>

\* The promise a run of handleGenerateAllAudio awaits settles
BatchProgress(p) ==
  /\ run[p].pc = "exec"
  /\ \E settled \in Settlements(ex[p]) :
       LET st == Continued(RunState(p), settled, now)
       IN Commit(p, IF Finished(st.ex)
                      THEN BatchAfter(run[p].script, run[p].i, st, now)
                      ELSE st)
  /\ UNCHANGED <<now, ret, videoFile, script, isLoadingScript>>

\* The delay between two items is over
BatchPaced(p) ==
  /\ run[p].pc = "pacing"
  /\ now >= run[p].wakeAt
  /\ Commit(p, BatchFrom(run[p].script, run[p].i + 1, RunState(p), now))
  /\ UNCHANGED <<now, ret, videoFile, script, isLoadingScript>>

\* AudioResults offers the retry of item index: by the button, or by
\* RetryCountdown once retryAfter has passed
RetryOffered(index) ==
  /\ script # NoScript
  /\ index < Len(script)
  /\ index < Len(audioData)
  /\ audioData[index + 1].kind = "object"
  /\ ~audioData[index + 1].isLoading
  /\ Truthy(audioData[index + 1].error)

RetryClip(p, index) ==
  /\ run[p].pc = "idle"
  /\ RetryOffered(index)
  /\ Trim(script[index + 1]) # ""
  /\ LET st == Started([RunState(p) EXCEPT
                          !.audioData = WriteSlot(@, index, LoadingClip)], now)
     IN Commit(p, IF Finished(st.ex)
                    THEN RetryAfter(index, st, now)
                    ELSE [st EXCEPT !.run = [IdleRun EXCEPT !.pc = "exec",
                                                            !.script = script,
                                                            !.i = index]])
  /\ UNCHANGED <<now, ret, videoFile, script, isLoadingScript>>

\* The promise a run of retryAudioClip awaits settles
RetryProgress(p) ==
  /\ run[p].pc = "exec"
  /\ \E settled \in Settlements(ex[p]) :
       LET st == Continued(RunState(p), settled, now)
       IN Commit(p, IF Finished(st.ex) THEN RetryAfter(run[p].i, st, now) ELSE st)
  /\ UNCHANGED <<now, ret, videoFile, script, isLoadingScript>>

handleVideoUpload ==
  /\ videoFile' = TRUE
  /\ script' = NoScript
  /\ UNCHANGED <<keys, currentIndex, now, ret, ex, isLoadingScript, audioData,
                 isLoadingAudio, run>>

handleRemoveVideo ==
  /\ videoFile
  /\ videoFile' = FALSE
  /\ script' = NoScript
  /\ UNCHANGED <<keys, currentIndex, now, ret, ex, isLoadingScript, audioData,
                 isLoadingAudio, run>>

\* handleGenerateScript to its await; when getCurrentKey throws, through its
\* catch and finally blocks
handleGenerateScript ==
  LET got == getCurrentKey(keys, currentIndex, now)
  IN /\ videoFile
     /\ ~isLoadingScript
     /\ script' = NoScript
     /\ isLoadingScript' = ~got.threw
     /\ currentIndex' = IF got.threw THEN currentIndex ELSE got.index
     /\ UNCHANGED <<keys, now, ret, ex, videoFile, audioData, isLoadingAudio, run>>

\* generateScriptFromVideo settles: with a script, or with an error
ScriptSettled ==
  /\ isLoadingScript
  /\ isLoadingScript' = FALSE
  /\ \E outcome \in GeneratedScripts \cup {NoScript} :
       script' = IF outcome = NoScript THEN script ELSE outcome
  /\ UNCHANGED <<keys, currentIndex, now, ret, ex, videoFile, audioData,
                 isLoadingAudio, run>>

Init ==
  /\ \E n \in 1..MaxKeys : keys = NewKeys(ApiKeys(n))
  /\ currentIndex = 0
  /\ now = StartTime
  /\ ret = [op |-> "new", args |-> <<>>, threw |-> FALSE, key |-> <<>>, count |-> 0]
  /\ ex = [p \in CallSites |-> IdleExec]
  /\ AppInit

Next ==
  \/ handleVideoUpload
  \/ handleRemoveVideo
  \/ handleGenerateScript
  \/ ScriptSettled
  \/ \E p \in BatchRuns : GenerateAll(p)
  \/ \E p \in BatchRuns : BatchProgress(p)
  \/ \E p \in BatchRuns : BatchPaced(p)
  \/ \E p \in RetryRuns, index \in 0..(MaxItems - 1) : RetryClip(p, index)
  \/ \E p \in RetryRuns : RetryProgress(p)
  \/ Tick

Spec == Init /\ [][Next]_vars

-----------------------------------------------------------------------------
(* useAudioGeneration rendered with any script, which stays the same *)

\* The pool the hook is given holds a single key or MaxKeys keys
HookInit ==
  /\ \E n \in {1, MaxKeys} : keys = NewKeys(ApiKeys(n))
  /\ currentIndex = 0
  /\ now = StartTime
  /\ ret = [op |-> "new", args |-> <<>>, threw |-> FALSE, key |-> <<>>, count |-> 0]
  /\ ex = [p \in CallSites |-> IdleExec]
  /\ videoFile = TRUE
  /\ script \in Scripts
  /\ isLoadingScript = FALSE
  /\ audioData = <<>>
  /\ isLoadingAudio = FALSE
  /\ run = [p \in CallSites |-> IdleRun]

HookNext ==
  \/ \E p \in BatchRuns : GenerateAll(p)
  \/ \E p \in BatchRuns : BatchProgress(p)
  \/ \E p \in BatchRuns : BatchPaced(p)
  \/ \E p \in RetryRuns, index \in 0..(MaxItems - 1) : RetryClip(p, index)
  \/ \E p \in RetryRuns : RetryProgress(p)
  \/ Tick

HookSpec == HookInit /\ [][HookNext]_vars

-----------------------------------------------------------------------------
(* useAudioGeneration with its promises and timers served: every remote call   *)
(* terminates, a timer that is due fires, and time passes.  The clock runs to   *)
(* EndTime on its own and beyond it while the delay between two items is        *)
(* running; a batch is started up to EndTime.                                   *)

\* Time passes while the timer of line 149 is running
PacingTick ==
  /\ \E p \in BatchRuns : run[p].pc = "pacing" /\ now < run[p].wakeAt
  /\ now >= EndTime
  /\ now' = now + TickMs
  /\ ret' = [ret EXCEPT !.op = "tick", !.args = <<>>, !.threw = FALSE, !.key = <<>>]
  /\ UNCHANGED <<keys, currentIndex, ex, appVars>>

GenerateAllInTime(p) == now <= EndTime /\ GenerateAll(p)

HookLiveNext ==
  \/ \E p \in BatchRuns : GenerateAllInTime(p)
  \/ \E p \in BatchRuns : BatchProgress(p)
  \/ \E p \in BatchRuns : BatchPaced(p)
  \/ \E p \in RetryRuns, index \in 0..(MaxItems - 1) : RetryClip(p, index)
  \/ \E p \in RetryRuns : RetryProgress(p)
  \/ Tick
  \/ PacingTick

\* The hook is given a script of at most MaxLiveItems entries
HookLiveInit ==
  /\ \E n \in {1, MaxKeys} : keys = NewKeys(ApiKeys(n))
  /\ currentIndex = 0
  /\ now = StartTime
  /\ ret = [op |-> "new", args |-> <<>>, threw |-> FALSE, key |-> <<>>, count |-> 0]
  /\ ex = [p \in CallSites |-> IdleExec]
  /\ videoFile = TRUE
  /\ script \in ScriptsUpTo(MaxLiveItems)
  /\ isLoadingScript = FALSE
  /\ audioData = <<>>
  /\ isLoadingAudio = FALSE
  /\ run = [p \in CallSites |-> IdleRun]

HookLiveSpec ==
  /\ HookLiveInit
  /\ [][HookLiveNext]_vars
  /\ \A p \in BatchRuns : WF_vars(BatchProgress(p))
  /\ \A p \in BatchRuns : WF_vars(BatchPaced(p))
  /\ \A p \in RetryRuns : WF_vars(RetryProgress(p))
  /\ WF_vars(Tick)
  /\ WF_vars(PacingTick)

-----------------------------------------------------------------------------
(* Properties of generateSingleAudio, checked under ExecSpec *)

Last(seq) == seq[Len(seq)]

\* The activation at p has just caught `failure` from the remote call: a step of
\* Resume(p) that leaves the await of line 85 through the catch block
CaughtFromCall(p, failure) ==
  /\ ex[p].pc = "call"
  /\ ex'[p].caught = Append(ex[p].caught, failure)

\* Index of the key the activation at p passed to the remote call
UsedIndex(p) == CHOOSE i \in Indices(keys) : keys[i + 1].key = ex[p].currentKey

\* The failure kinds the code tells apart: a rate limit, or anything else
IsRateLimited(error) == parseRateLimitError(error).isRateLimit
IsOther(error) == ~parseRateLimitError(error).isRateLimit

\* The error of kind RetriesExhausted: `throw new Error('Max retries exceeded')`
IsRetriesExhausted(error) == error.message = MaxRetriesError.message

\* C1: one call of generateSingleAudio invokes the work function at most
\* maxRetries + 1 times, for every maxRetries >= 0, pool and outcome sequence.
C1_AttemptsBounded ==
  \A p \in CallSites : ex[p].calls <= ex[p].maxRetries + 1

\* C1 witness: an activation that ended in failure after using its whole budget
\* of maxRetries + 1 invocations.
C1_Witness ==
  \E p \in CallSites :
    ex[p].pc = "threw" /\ ex[p].calls = ex[p].maxRetries + 1 /\ Len(ex[p].caught) = ex[p].calls

\* C2 (as claimed): over a single-credential pool, an activation whose every
\* attempt failed with RateLimited{1} ends only after exactly maxRetries + 1
\* attempts, and ends with RetriesExhausted.
C2_RetryBudgetClaim ==
  \A p \in CallSites :
    ( /\ Len(keys) = 1
      /\ ex[p].pc = "threw"
      /\ ex[p].caught # <<>>
      /\ \A i \in 1..Len(ex[p].caught) : ex[p].caught[i] = RateLimitError(1) )
    => /\ ex[p].calls = ex[p].maxRetries + 1
       /\ IsRetriesExhausted(ex[p].thrown)

\* C3: a failure classified Other ends the activation at once with that same
\* failure, whatever maxRetries is: no further attempt follows it (an Other
\* failure of the first attempt leaves an attempt count of 1), and the step that
\* catches it changes no credential record.
C3_OtherShortCircuits ==
  [][\A p \in CallSites : \A f \in WorkFailures :
       (CaughtFromCall(p, f) /\ IsOther(f))
       => /\ ex'[p].pc = "threw"
          /\ ex'[p].thrown = f
          /\ ex'[p].calls = ex[p].calls
          /\ (ex[p].attempt = 0 => ex'[p].calls = 1)
          /\ keys' = keys]_vars

\* C3 witness: an activation with retries left (maxRetries = 2) that threw the
\* Other failure of its first attempt.
C3_Witness ==
  \E p \in CallSites :
    /\ ex[p].pc = "threw"
    /\ ex[p].maxRetries = DefaultMaxRetries
    /\ ex[p].caught = <<NoAudioError>>
    /\ ex[p].thrown = NoAudioError
    /\ ex[p].calls = 1

\* C4 (as claimed): an activation that used all maxRetries + 1 attempts, the last
\* of them failing with a retryable failure, fails with RetriesExhausted and
\* carries the detail of that last failure.
C4_RetriesExhaustedClaim ==
  \A p \in CallSites :
    ( /\ ex[p].pc = "threw"
      /\ ex[p].calls = ex[p].maxRetries + 1
      /\ ex[p].caught # <<>>
      /\ IsRateLimited(Last(ex[p].caught)) )
    => /\ IsRetriesExhausted(ex[p].thrown)
       /\ parseRateLimitError(ex[p].thrown).errorMsg = Last(ex[p].caught).message

\* C5 (as claimed): when the attempt made with credential k fails as
\* RateLimited{s}, the catch step marks exactly credential k: its availableAt
\* becomes now + s seconds, its errorCount grows by one, and no other credential
\* record changes.
C5_MarksUsedCredentialClaim ==
  [][\A p \in CallSites : \A s \in WorkRetrySeconds :
       CaughtFromCall(p, RateLimitError(s))
       => keys' = [keys EXCEPT ![UsedIndex(p) + 1] =
                     [@ EXCEPT !.availableAt = now + s * MsPerSecond,
                               !.errorCount = @ + 1]]]_vars

\* C6 (as claimed): after a RateLimited failure on credential k with an attempt
\* left and another credential available right now, the catch step goes straight
\* to the next attempt (no sleep), made with an available credential other than k.
C6_RotatesWithoutSleepClaim ==
  [][\A p \in CallSites : \A s \in WorkRetrySeconds :
       ( /\ CaughtFromCall(p, RateLimitError(s))
         /\ ex[p].attempt < ex[p].maxRetries
         /\ \E j \in Indices(keys) : j # UsedIndex(p) /\ IsAvailable(keys[j + 1], now) )
       => /\ ex'[p].pc = "call"
          /\ ex'[p].calls = ex[p].calls + 1
          /\ ex'[p].currentKey # ex[p].currentKey
          /\ \E j \in Indices(keys) :
               keys[j + 1].key = ex'[p].currentKey /\ IsAvailable(keys'[j + 1], now)]_vars

\* C7 (as claimed): after a RateLimited{s} failure with an attempt left and no
\* other credential available right now, the catch step starts a sleep of
\* min(s, 10) seconds.
C7_BoundedWaitClaim ==
  [][\A p \in CallSites : \A s \in WorkRetrySeconds :
       ( /\ CaughtFromCall(p, RateLimitError(s))
         /\ ex[p].attempt < ex[p].maxRetries
         /\ \A j \in Indices(keys) : j # UsedIndex(p) => ~IsAvailable(keys[j + 1], now) )
       => /\ ex'[p].pc = "sleep"
          /\ ex'[p].wakeAt = now + Min(s, MaxWaitSeconds) * MsPerSecond]_vars

\* C8 (as claimed): when the attempt made with credential k is rejected for its
\* credential (permission denied), the catch step blocks credential k and, with an
\* attempt left, the activation goes on to another attempt instead of failing.
C8_BlocksInvalidCredentialClaim ==
  [][\A p \in CallSites :
       CaughtFromCall(p, InvalidKeyError)
       => /\ keys'[UsedIndex(p) + 1].isBlocked
          /\ (ex[p].attempt < ex[p].maxRetries => ex'[p].pc # "threw")]_vars

\* C16 (as claimed): markRateLimited throws for no argument generateSingleAudio
\* passes to it, so no activation ends with the error of a markRateLimited call.
C16_MarkNeverThrowsClaim ==
  \A p \in CallSites :
    ex[p].pc = "threw" => ex[p].thrown # SubstringTypeError

\* C34 (as claimed): when two activations of generateSingleAudio share the pool
\* and one catches RateLimited{s} while the other is in flight, the mark lands
\* on the credential the failing attempt used and is not lost: that credential's
\* availableAt becomes now + s seconds and its errorCount grows by one.
C34_InterleavedMarksLandClaim ==
  [][\A p \in CallSites, q \in CallSites, s \in WorkRetrySeconds :
       ( /\ p # q
         /\ ex[q].pc \in {"call", "sleep"}
         /\ CaughtFromCall(p, RateLimitError(s)) )
       => /\ keys'[UsedIndex(p) + 1].availableAt = now + s * MsPerSecond
          /\ keys'[UsedIndex(p) + 1].errorCount = keys[UsedIndex(p) + 1].errorCount + 1]_vars

\* C30 (as claimed): the error an activation of generateSingleAudio ends with is
\* a classified failure built by the executor: it is none of the errors the
\* remote call raised (caught at line 87) and not an error raised by the pool
\* inside the retry handling.
C30_NoRawFailureLeavesClaim ==
  \A p \in CallSites :
    ex[p].pc = "threw"
    => /\ \A k \in 1..Len(ex[p].caught) : ex[p].thrown # ex[p].caught[k]
       /\ ex[p].thrown \notin {SubstringTypeError, ReduceTypeError, UndefinedKeyTypeError}

-----------------------------------------------------------------------------
(* Properties of ApiKeyManager, checked under PoolSpec.  ret describes the call  *)
(* that led to the state, so keys and now are those the call saw.               *)

\* The credential at index i (0-based) is in cooldown: availableAt > now
InCooldown(i) == keys[i + 1].availableAt > now

AvailableIndices == {i \in Indices(keys) : IsAvailable(keys[i + 1], now)}

\* C9: getCurrentKey never returns a credential in cooldown while some
\* non-blocked credential is out of cooldown; in a pool of 3 whose credential 0
\* is in cooldown it then returns credential 1 or 2, never credential 0.
C9_SkipsCredentialInCooldown ==
  (ret.op = "getCurrentKey" /\ AvailableIndices # {})
  => /\ ~ret.threw
     /\ ret.key = keys[currentIndex + 1].key
     /\ ~InCooldown(currentIndex)
     /\ (Len(keys) = 3 /\ InCooldown(0)) => currentIndex \in {1, 2}

\* C9 witness: in a pool of 3, credential 0 was marked and is still in cooldown,
\* and getCurrentKey has just returned credential 1 or 2.
C9_Witness ==
  /\ ret.op = "getCurrentKey"
  /\ Len(keys) = 3
  /\ keys[1].errorCount > 0 /\ ~keys[1].isBlocked /\ InCooldown(0)
  /\ currentIndex \in {1, 2}
  /\ ret.key = keys[currentIndex + 1].key

\* C10: whenever some credential is non-blocked with availableAt <= now,
\* getCurrentKey returns the one of lowest index among them.
C10_ReturnsLowestAvailableIndex ==
  (ret.op = "getCurrentKey" /\ AvailableIndices # {})
  => /\ ~ret.threw
     /\ \A i \in AvailableIndices : currentIndex <= i
     /\ currentIndex \in AvailableIndices
     /\ ret.key = keys[currentIndex + 1].key

\* C10 witness: getCurrentKey has just returned credential 1 of 3 while
\* credential 0 is blocked and credentials 1 and 2 are both available.
C10_Witness ==
  /\ ret.op = "getCurrentKey"
  /\ Len(keys) = 3
  /\ keys[1].isBlocked
  /\ AvailableIndices = {1, 2}
  /\ currentIndex = 1
  /\ ret.key = keys[2].key

\* The step is a call of the pool's method op
IsCall(op) == ret'.op = op /\ ret'.count = ret.count + 1

NotBlockedIndices == {i \in Indices(keys) : ~keys[i + 1].isBlocked}

\* C11: when no credential is available but some credential is not blocked,
\* getCurrentKey returns a non-blocked credential of smallest availableAt, the
\* one of lowest index among equals, and never a blocked one.
C11_ReturnsSoonestNotBlocked ==
  (ret.op = "getCurrentKey" /\ AvailableIndices = {} /\ NotBlockedIndices # {})
  => /\ ~ret.threw
     /\ currentIndex \in NotBlockedIndices
     /\ ret.key = keys[currentIndex + 1].key
     /\ \A i \in NotBlockedIndices :
          /\ keys[currentIndex + 1].availableAt <= keys[i + 1].availableAt
          /\ (keys[currentIndex + 1].availableAt = keys[i + 1].availableAt
                => currentIndex <= i)

\* C11 witness: credential 0 of 3 is blocked, credentials 1 and 2 are both in
\* cooldown, 2 recovering first, and getCurrentKey has just returned credential 2.
C11_Witness ==
  /\ ret.op = "getCurrentKey"
  /\ Len(keys) = 3
  /\ keys[1].isBlocked
  /\ AvailableIndices = {}
  /\ keys[3].availableAt < keys[2].availableAt
  /\ currentIndex = 2
  /\ ret.key = keys[3].key

C14_RotateFallsBackToCurrent ==
  [][(IsCall("rotateToNextKey") /\ currentIndex \in Indices(keys)
        /\ AvailableIndices = {})
       => /\ ~ret'.threw
          /\ ret'.key = keys[currentIndex + 1].key
          /\ currentIndex' = currentIndex
          /\ keys' = keys]_vars

\* C14 witness: both credentials of a pool of 2 are in cooldown, the selection is
\* credential 1, and rotateToNextKey has just returned credential 1.
C14_Witness ==
  /\ ret.op = "rotateToNextKey"
  /\ ~ret.threw
  /\ Len(keys) = 2
  /\ NotBlockedIndices = {0, 1}
  /\ AvailableIndices = {}
  /\ currentIndex = 1
  /\ ret.key = keys[2].key

\* The credential record at index i after the step is the one before it, put in
\* cooldown for s seconds from now and with one more error counted
MarkedFor(i, s) ==
  /\ keys'[i + 1].key = keys[i + 1].key
  /\ keys'[i + 1].availableAt = now + s * MsPerSecond
  /\ keys'[i + 1].errorCount = keys[i + 1].errorCount + 1
  /\ keys'[i + 1].isBlocked = keys[i + 1].isBlocked

\* No credential record but the one at index i changes in the step
OnlyChanges(i) ==
  /\ Len(keys') = Len(keys)
  /\ \A j \in Indices(keys) : j # i => keys'[j + 1] = keys[j + 1]

\* C15: markRateLimited(identity, s) with the identity of credential i puts
\* availableAt of credential i at now + s seconds and adds one to its errorCount;
\* its blocked flag, every other credential record and the current selection
\* stay as they were.
C15_MarkSetsCooldownOnly ==
  [][IsCall("markRateLimited")
       => \A i \in Indices(keys) :
            keys[i + 1].key = ret'.args[1]
            => /\ ~ret'.threw
               /\ MarkedFor(i, ret'.args[2])
               /\ OnlyChanges(i)
               /\ currentIndex' = currentIndex]_vars

\* C15 witness: in a pool of 3 whose credential 2 is blocked, credential 1 has
\* just been marked by its full key for 2 seconds; credential 0 is untouched.
C15_Witness ==
  /\ ret.op = "markRateLimited"
  /\ Len(keys) = 3
  /\ ret.args = <<keys[2].key, 2>>
  /\ keys[2].availableAt = now + 2 * MsPerSecond
  /\ keys[2].errorCount = 1
  /\ keys[3].isBlocked /\ ~keys[2].isBlocked
  /\ keys[1] = NewKeys(ApiKeys(3))[1]

\* C17: markRateLimited called with credential i's key cut short, its first
\* PrefixLen characters kept, marks credential i and no other credential,
\* whenever no other credential of the pool begins with those characters.
C17_TruncatedIdentityMarksItsCredential ==
  [][IsCall("markRateLimited")
       => \A i \in Indices(keys) :
            LET identity == ret'.args[1]
                secret == keys[i + 1].key
            IN ( /\ Len(identity) < Len(secret)
                 /\ Len(identity) >= PrefixLen
                 /\ identity = Substring(secret, Len(identity))
                 /\ \A j \in Indices(keys) :
                      Substring(keys[j + 1].key, PrefixLen) = Substring(secret, PrefixLen)
                      => j = i )
               => /\ ~ret'.threw
                  /\ MarkedFor(i, ret'.args[2])
                  /\ OnlyChanges(i)]_vars

\* C17 witness: in a pool of 3, credential 1 has just been marked for 1 second
\* by the first PrefixLen characters of its key, which is one character longer.
C17_Witness ==
  /\ ret.op = "markRateLimited"
  /\ Len(keys) = 3
  /\ ret.args = <<Substring(keys[2].key, PrefixLen), 1>>
  /\ Len(keys[2].key) = PrefixLen + 1
  /\ keys[2].availableAt = now + MsPerSecond
  /\ keys[2].errorCount = 1
  /\ keys[1].errorCount = 0 /\ keys[3].errorCount = 0

\* C18: a credential that is blocked is blocked after every step, whichever
\* method of the pool the step calls; resetErrorCounts puts every errorCount at 0
\* and changes no blocked flag and no availableAt.
C18_BlockedStaysBlocked ==
  [][/\ Len(keys') = Len(keys)
     /\ \A i \in Indices(keys) : keys[i + 1].isBlocked => keys'[i + 1].isBlocked
     /\ IsCall("resetErrorCounts")
          => \A i \in Indices(keys) :
               /\ keys'[i + 1].errorCount = 0
               /\ keys'[i + 1].isBlocked = keys[i + 1].isBlocked
               /\ keys'[i + 1].availableAt = keys[i + 1].availableAt
               /\ keys'[i + 1].key = keys[i + 1].key]_vars

\* C18 witness: resetErrorCounts has just run on a pool of 2 whose credential 0
\* is blocked and whose credential 1 had been marked: credential 0 is still
\* blocked, credential 1 still in cooldown, both error counts are 0.
C18_Witness ==
  /\ ret.op = "resetErrorCounts"
  /\ Len(keys) = 2
  /\ keys[1].isBlocked
  /\ ~keys[2].isBlocked /\ InCooldown(1)
  /\ keys[1].errorCount = 0 /\ keys[2].errorCount = 0

\* C19 (as claimed): the pool keeps all its credentials, and while some
\* credential is not blocked neither getCurrentKey nor rotateToNextKey returns a
\* blocked one.
C19_BlockedNeverReturnedClaim ==
  [][/\ Len(keys') = Len(keys)
     /\ ((IsCall("getCurrentKey") \/ IsCall("rotateToNextKey"))
           /\ ~ret'.threw /\ NotBlockedIndices # {})
          => \A i \in Indices(keys) :
               keys[i + 1].key = ret'.key => ~keys[i + 1].isBlocked]_vars

-----------------------------------------------------------------------------
(* Properties of handleGenerateAllAudio and retryAudioClip, checked under HookSpec *)

\* The items of script sc after item i that have text to speak
ItemsAfter(sc, i) == {k \in (i + 1)..(Len(sc) - 1) : Trim(sc[k + 1]) # ""}

\* C20: when the call of generateSingleAudio for item i of a batch ends, item i
\* becomes Succeeded if the call returned and Failed with the call's error if it
\* threw, no other item changes, and the batch goes on: after a failure it starts
\* the next item that has text at once, after a success it waits the pacing delay
\* and then starts it, and it is over only when no item is left.
C20_BatchItemsIndependent ==
  [][\A p \in BatchRuns :
       LET sc == run[p].script
           i == run[p].i
           out == run'[p].last
           rest == ItemsAfter(sc, i)
       IN /\ (run[p].pc = "exec" /\ run'[p] # run[p])
               => /\ out.i = i
                  /\ Len(audioData') = Len(audioData)
                  /\ audioData'[i + 1] = IF out.returned THEN AudioClip
                                          ELSE FailedClip(out.thrown, now)
                  /\ \A j \in 0..(Len(audioData) - 1) :
                       j # i => audioData'[j + 1] = audioData[j + 1]
                  /\ IF out.returned /\ i < Len(sc) - 1
                       THEN run'[p].pc = "pacing" /\ run'[p].i = i
                     ELSE IF rest # {}
                       THEN /\ run'[p].pc = "exec" /\ run'[p].i = SetMin(rest)
                            /\ ex'[p].pc = "call"
                     ELSE run'[p].pc = "idle" /\ ~isLoadingAudio'
          /\ (run[p].pc = "pacing" /\ run'[p] # run[p])
               => /\ audioData' = audioData
                  /\ IF rest # {}
                       THEN /\ run'[p].pc = "exec" /\ run'[p].i = SetMin(rest)
                            /\ ex'[p].pc = "call"
                       ELSE run'[p].pc = "idle" /\ ~isLoadingAudio']_vars

\* C20 witness: a batch over 3 items with text is over, no retry was ever made;
\* item 1 failed with the Other failure of its call, items 0 and 2 succeeded.
C20_Witness ==
  /\ Len(script) = 3
  /\ \A k \in 1..3 : Trim(script[k]) # ""
  /\ run["batch"].pc = "idle" /\ ~isLoadingAudio
  /\ run["batch"].last = [i |-> 2, returned |-> TRUE, thrown |-> PlainError(""),
                        caught |-> <<>>]
  /\ run["retry"] = IdleRun
  /\ audioData = <<AudioClip, FailedClip(NoAudioError, now), AudioClip>>

-----------------------------------------------------------------------------
(* Properties of the items' states, checked under HookSpec, HookLiveSpec and Spec *)

\* Item k of the script has text
HasText(sc, k) == sc # NoScript /\ k < Len(sc) /\ Trim(sc[k + 1]) # ""

\* The element of the array ad at index k; undefined beyond the array's end
SlotOf(ad, k) == IF k < Len(ad) THEN ad[k + 1] ELSE UndefinedSlot
Slot(k) == SlotOf(audioData, k)

\* The states of an item as AudioResults tells them apart
ItemAbsent(a) == a.kind # "object"
ItemLoading(a) == a.kind = "object" /\ a.isLoading
ItemFailed(a) == a.kind = "object" /\ ~a.isLoading /\ Truthy(a.error)
ItemSucceeded(a) ==
  a.kind = "object" /\ ~a.isLoading /\ ~Truthy(a.error) /\ a.url # ""
ItemSettled(a) == ItemSucceeded(a) \/ ItemFailed(a)

ItemIndices == 0..(MaxItems - 1)

\* A run of retryAudioClip is working on item k
RetryInFlight(k) == \E p \in RetryRuns : run[p].pc = "exec" /\ run[p].i = k

\* C21: when every remote call terminates, a batch that is running comes to its
\* end whatever failures its items meet, and at its end every item with text is
\* Succeeded or Failed, or is Loading again in a retry started meanwhile.
C21_EveryItemSettles ==
  isLoadingAudio
    ~> /\ ~isLoadingAudio
       /\ \A k \in ItemIndices :
            HasText(script, k)
              => \/ ItemSettled(Slot(k))
                 \/ ItemLoading(Slot(k)) /\ RetryInFlight(k)

\* A batch of two items is over: the first failed with the TypeError raised in
\* the pool, the second succeeded
C21_Witness ==
  /\ Len(script) = 2
  /\ run["batch"].pc = "idle" /\ ~isLoadingAudio
  /\ run["batch"].last.i = 1
  /\ audioData = <<FailedClip(SubstringTypeError, now), AudioClip>>

\* The run of retryAudioClip at p takes this step; the step that starts a batch
\* beside it, which only notes in the run's history that it was overtaken, is none
RetrySteps(p) ==
  ex'[p] # ex[p] \/ (run'[p] # run[p] /\ run'[p] # Overtaken(run[p]))

\* C22: a run of retryAudioClip(index) calls generateSingleAudio once, for the
\* item at index, and writes that item only: Loading when it starts, Succeeded or
\* Failed with the call's error when the call ends.  Every other item is the same
\* before and after each of its steps, whatever state it is in.
C22_RetryWritesOnlyItsItem ==
  [][\A p \in RetryRuns :
       LET starts == run[p].pc = "idle"
           ends == run'[p].pc = "idle"
           index == IF ends THEN run'[p].last.i ELSE run'[p].i
           out == run'[p].last
       IN RetrySteps(p)
            => /\ \A k \in ItemIndices : k # index => SlotOf(audioData', k) = Slot(k)
               /\ ~starts => index = run[p].i
               /\ starts /\ ~ends => /\ SlotOf(audioData', index) = LoadingClip
                                     /\ ex'[p].calls = 1
               /\ ends => SlotOf(audioData', index) = IF out.returned THEN AudioClip
                                          ELSE FailedClip(out.thrown, now)
               /\ ~starts /\ ~ends => audioData' = audioData]_vars

\* The retry of item 0 has succeeded while the batch, which failed on items 0
\* and 1, is working on item 2
C22_Witness ==
  /\ Len(script) = 3
  /\ run["batch"].pc = "exec" /\ run["batch"].i = 2
  /\ run["retry"].pc = "idle"
  /\ run["retry"].last = [i |-> 0, returned |-> TRUE, thrown |-> PlainError(""),
                        caught |-> <<>>]
  /\ audioData = <<AudioClip, FailedClip(NoAudioError, now), LoadingClip>>

\* The run at p ends its call of generateSingleAudio for item k in this step
Wrote(p, k) == run[p].pc = "exec" /\ run[p].i = k /\ run'[p].last.i = k

\* The slot a run writes for an outcome at time t
ResultSlot(out, t) == IF out.returned THEN AudioClip ELSE FailedClip(out.thrown, t)

\* C23: a batch and a retry may work on the same item at the same time.  The one
\* that ends its call writes its own result over whatever the item holds, a
\* result appears in an item in no other way, an item in Loading is eventually
\* Succeeded or Failed when every remote call terminates, and when neither
\* operation is running every item with text is Succeeded or Failed.
C23_LastWriteWins ==
  /\ [][\A k \in ItemIndices :
          /\ \A p \in CallSites :
               Wrote(p, k) => SlotOf(audioData', k) = ResultSlot(run'[p].last, now)
          /\ (SlotOf(audioData', k) # Slot(k) /\ ItemSettled(SlotOf(audioData', k)))
               => \E p \in CallSites : Wrote(p, k)]_vars
  /\ \A k \in ItemIndices : ItemLoading(Slot(k)) ~> ItemSettled(Slot(k))
  /\ [](((\A p \in CallSites : run[p].pc = "idle") /\ audioData # <<>>)
          => \A k \in ItemIndices : HasText(script, k) => ItemSettled(Slot(k)))

\* The batch is working on item 0 and the retry of item 0, in flight since
\* before the batch started, has ended and written its result
C23_Witness ==
  /\ run["batch"].pc = "exec" /\ run["batch"].i = 0
  /\ run["retry"].pc = "idle"
  /\ run["retry"].last = [i |-> 0, returned |-> TRUE, thrown |-> PlainError(""),
                        caught |-> <<>>]
  /\ Slot(0) = AudioClip

\* A run of handleGenerateAllAudio starts in this step
BatchStarts(p) == run[p].pc = "idle" /\ ~isLoadingAudio /\ run'[p] # run[p]

\* The batch run at p still has item k before it: it will write the item
BatchStillWrites(p, k) ==
  \/ run[p].pc # "idle" /\ run[p].i < k
  \/ run[p].pc = "exec" /\ run[p].i = k

\* C24: a new batch run resets every item: right after it starts no item is
\* Succeeded or Failed from an earlier run, and a result written by an operation
\* that was started before the run does not outlast it: such an operation writes
\* an item only while the run still has that item before it.
C24_NewRunResetsClaim ==
  [][/\ \A p \in BatchRuns :
          BatchStarts(p)
            => \A k \in ItemIndices :
                 ItemSettled(SlotOf(audioData', k))
                   => (run'[p].pc = "idle" \/ run'[p].i > k)
     /\ \A q \in RetryRuns, k \in ItemIndices :
          (Wrote(q, k) /\ run[q].stale)
            => \E p \in BatchRuns : BatchStillWrites(p, k)]_vars

\* The items with text from index a up to, not including, index b
TextItems(sc, a, b) == {j \in ItemIndices : a <= j /\ j < b /\ HasText(sc, j)}

\* The batch run at p has its call of generateSingleAudio in flight exactly while
\* it is at the await of line 138
OneCallAtATime ==
  \A p \in BatchRuns :
    /\ run[p].pc = "exec" => ex[p].pc \in {"call", "sleep"}
    /\ run[p].pc # "exec" => ex[p].pc = "idle"

\* The batch run at p ends its calls in index order and leaves out no item with text
InIndexOrder(p) ==
  \A k \in ItemIndices :
    Wrote(p, k) => /\ run[p].last.i < k
                   /\ TextItems(run[p].script, run[p].last.i + 1, k) = {}
                   /\ HasText(run[p].script, k)

C26_BlankItemsStayAbsentClaim ==
  /\ \A k \in ItemIndices :
       (script # NoScript /\ k < Len(script) /\ ~HasText(script, k))
         => ItemAbsent(Slot(k))
  /\ \A p \in CallSites :
       /\ run[p].pc # "idle" => HasText(run[p].script, run[p].i)
       /\ ex[p].pc # "idle" => run[p].pc = "exec"

\* The failure that ended a call of generateSingleAudio: the last one its catch
\* block caught, or the error it threw without having caught one
FinalFailure(out) == IF out.caught # <<>> THEN Last(out.caught) ELSE out.thrown

\* C27: when a call of generateSingleAudio ends in failure, the Failed item it
\* leaves has retryAfter equal to the time of the write plus the retry interval
\* of the final failure, in milliseconds, when that failure is a rate limit
\* with a positive interval, and has no retryAfter otherwise.
C27_RetryAtOfFinalFailureClaim ==
  [][\A p \in CallSites, k \in ItemIndices :
       (Wrote(p, k) /\ ~run'[p].last.returned)
         => LET final == parseRateLimitError(FinalFailure(run'[p].last))
                slot == SlotOf(audioData', k)
            IN /\ ItemFailed(slot)
               /\ slot.retryAfter =
                    IF final.isRateLimit /\ final.retryAfterSeconds > 0
                      THEN JsNumber(now + final.retryAfterSeconds * MsPerSecond)
                      ELSE JsUndefined]_vars

-----------------------------------------------------------------------------
(* Properties of parseRateLimitError, checked under ClassifierSpec *)

Has(obj, name) == obj.type = "object" /\ name \in DOMAIN obj.val

\* The Error's message is JSON text, and the document it is the text of
IsJsonError(error) == error.inst = "Error" /\ error.message.type = "json"
DocOf(error) == error.message.val

\* The document has the object `error`
HasErrorObject(doc) == Has(doc, "error") /\ doc.val["error"].type = "object"

\* The failure carries the structured too-many-requests signal
Is429(error) ==
  /\ IsJsonError(error)
  /\ HasErrorObject(DocOf(error))
  /\ Has(DocOf(error).val["error"], "code")
  /\ DocOf(error).val["error"].val["code"] = JsNumber(429)

\* error.details of a 429, where it has one that is not null
DetailsOf(error) ==
  IF Has(DocOf(error).val["error"], "details")
    THEN DocOf(error).val["error"].val["details"]
    ELSE JsNull

IsRetryInfo(d) == Has(d, "@type") /\ d.val["@type"] = JsString(RetryInfoType)

\* Positions of the RetryInfo details in a list, and the elements a search for
\* the first of them looks at
RetryInfoAt(items) == {i \in 1..Len(items) : IsRetryInfo(items[i])}
LookedAt(items) ==
  IF RetryInfoAt(items) = {} THEN 1..Len(items) ELSE 1..SetMin(RetryInfoAt(items))

\* The retryDelay of the first RetryInfo detail of a list that has one
FirstRetryDelay(items) ==
  LET d == items[SetMin(RetryInfoAt(items))]
  IN IF Has(d, "retryDelay") THEN d.val["retryDelay"] ELSE JsNull

\* The rate-limit information of a 429 has a shape the code does not expect:
\* details that is no list, a list with null where a detail is looked for, or a
\* retryDelay that is no string
UnexpectedRetryInfo(error) ==
  LET details == DetailsOf(error)
  IN /\ ~Nullish(details)
     /\ \/ details.type # "array"
        \/ /\ details.type = "array"
           /\ \/ \E i \in LookedAt(details.val) : Nullish(details.val[i])
              \/ /\ RetryInfoAt(details.val) # {}
                 /\ FirstRetryDelay(details.val).type \in {"number", "array", "object"}

\* The failure names the retry interval of s seconds
HasRetryInterval(error, s) ==
  LET details == DetailsOf(error)
  IN /\ details.type = "array"
     /\ RetryInfoAt(details.val) # {}
     /\ \A i \in LookedAt(details.val) : ~Nullish(details.val[i])
     /\ FirstRetryDelay(details.val) = Duration(s)

\* The call of parseRateLimitError has been made
Parsed == ret.op = "parseRateLimitError"

\* The result is Other with the text msg
IsOtherWith(r, msg) ==
  ~r.threw /\ ~r.isRateLimit /\ r.retryAfterSeconds = 0 /\ r.errorMsg = msg

\* C28: parseRateLimitError throws for no value.  A value that is no Error is
\* Other with String(value) as message; an Error whose message is no JSON, whose
\* JSON has no `error` object, or whose JSON is a 429 with rate-limit
\* information of an unexpected shape, is Other with error.message as message.
C28_NeverThrowsMalformedIsOther ==
  Parsed =>
    LET error == ret.args[1]
        r == ret.result
    IN /\ ~ret.threw
       /\ error.inst # "Error" => IsOtherWith(r, JsToString(error.value))
       /\ (error.inst = "Error" /\ ~IsJsonError(error))
            => IsOtherWith(r, error.message)
       /\ (IsJsonError(error) /\ ~HasErrorObject(DocOf(error)))
            => IsOtherWith(r, error.message)
       /\ (Is429(error) /\ UnexpectedRetryInfo(error))
            => IsOtherWith(r, error.message)

\* The call was made with a 429 whose details is a string, not a list
C28_Witness ==
  /\ Parsed
  /\ ret.args = <<JsonError(ApiErrorDoc(JsNumber(429), JsString("Quota exceeded"),
                                        JsString("none")))>>
  /\ ret.result.errorMsg = ret.args[1].message

\* C29: parseRateLimitError returns a rate limit exactly for a failure that
\* carries code 429 and names a retry interval, and retryAfterSeconds is that
\* interval; a 429 without one, and a failure without the 429, is no rate limit.
C29_RateLimitedIff429WithInterval ==
  Parsed =>
    LET error == ret.args[1]
        r == ret.result
        intervals == {s \in {0} \cup WorkRetrySeconds : HasRetryInterval(error, s)}
    IN /\ r.isRateLimit <=> (Is429(error) /\ intervals # {})
       /\ r.isRateLimit => r.retryAfterSeconds \in intervals
       /\ ~Is429(error) => ~r.isRateLimit

\* The call was made with a 429 that names 12 seconds after a detail of another
\* type
C29_Witness ==
  /\ Parsed
  /\ ret.args = <<JsonError(ApiErrorDoc(JsNumber(429), JsString("Quota exceeded"),
                                        JsArray(<<OtherDetail,
                                                  RetryInfoDetail(Duration(12))>>)))>>
  /\ ret.result.isRateLimit /\ ret.result.retryAfterSeconds = 12

-----------------------------------------------------------------------------
(* Properties of the pool's queries, checked under PoolSpec *)

\* C31 (as claimed): getSecondsUntilNextAvailable returns 0 whenever some
\* credential is usable right now (hasAvailableKey, getAvailableKeyCount > 0),
\* and otherwise the ceiling, in seconds, of the smallest remaining wait among
\* the non-blocked credentials in cooldown.
C31_ZeroWhenSomeAvailableClaim ==
  ret.op = "getSecondsUntilNextAvailable"
  => /\ hasAvailableKey(keys, now) <=> getAvailableKeyCount(keys, now) > 0
     /\ hasAvailableKey(keys, now) => ret.seconds = 0
     /\ (~hasAvailableKey(keys, now) /\ CoolingIndices(keys, now) # {})
          => \E i \in CoolingIndices(keys, now) :
               /\ \A j \in CoolingIndices(keys, now) :
                    keys[i + 1].availableAt <= keys[j + 1].availableAt
               /\ (ret.seconds - 1) * MsPerSecond < keys[i + 1].availableAt - now
               /\ keys[i + 1].availableAt - now <= ret.seconds * MsPerSecond

-----------------------------------------------------------------------------
(* Properties of useApiKeyManager, checked under ConfigSpec *)

\* The entries of the configuration string cfg, each as the pair of the
\* positions of its first and last character: a stretch without comma that
\* begins and ends with a character other than the blank, with nothing but
\* blanks between it and the separators (or the string's ends) around it
EntriesOf(cfg) ==
  LET n == Len(cfg)
      IsSep(i) == i = 0 \/ i = n + 1 \/ (i \in 1..n /\ cfg[i] = ",")
      Blank(i, j) == \A m \in i..j : cfg[m] = " "
  IN {e \in (1..n) \X (1..n) :
        /\ e[1] <= e[2]
        /\ \A m \in e[1]..e[2] : cfg[m] # ","
        /\ cfg[e[1]] # " " /\ cfg[e[2]] # " "
        /\ \E l \in 0..(e[1] - 1) : IsSep(l) /\ Blank(l + 1, e[1] - 1)
        /\ \E r \in (e[2] + 1)..(n + 1) : IsSep(r) /\ Blank(e[2] + 1, r - 1)}

\* A credential as new: always available, not blocked, no error counted
IsFresh(k) == k.availableAt = 0 /\ ~k.isBlocked /\ k.errorCount = 0

\* C32: the pool built from the configuration string holds its comma-separated,
\* trimmed, non-empty entries, one credential each, in the order written, every
\* one as new; with no such entry it holds the one placeholder credential (the
\* empty key), so it is never empty.
C32_PoolHoldsConfiguredEntries ==
  ret.op = "useApiKeyManager"
  => LET cfg == ApiKeysString(ret.args[1], ret.args[2])
         entries == EntriesOf(cfg)
     IN /\ Len(keys) >= 1
        /\ \A i \in 1..Len(keys) : IsFresh(keys[i])
        /\ entries = {} => Len(keys) = 1 /\ keys[1].key = <<>>
        /\ entries # {}
             => /\ Len(keys) = Cardinality(entries)
                /\ \A e \in entries :
                     keys[Cardinality({f \in entries : f[1] <= e[1]})].key
                       = SubSeq(cfg, e[1], e[2])

\* The pool built from " b,a": the keys "b" and "a", in this order
C32_Witness ==
  /\ ret.op = "useApiKeyManager"
  /\ ret.args[1] = JsText(<<" ", "b", ",", "a">>)
  /\ keys = NewKeys(<< <<"b">>, <<"a">> >>)

-----------------------------------------------------------------------------
(* Properties of the app under script changes, checked under Spec *)

\* The batch run at p is abandoned: the script it was started for has been
\* taken away (a new upload, the video removed, a new script requested) while
\* the run is not over
Abandoned(p) == run[p].pc # "idle" /\ script = NoScript

\* The run at p takes this step
RunSteps(p) == ex'[p] # ex[p] \/ run'[p] # run[p]

-----------------------------------------------------------------------------
(* Properties of the credential choice, checked under PoolSpec *)

\* The pools that differ from ks at most in the error counts of their keys
SameButErrorCounts(ks) ==
  {[i \in 1..Len(ks) |-> [ks[i] EXCEPT !.errorCount = n[i]]] :
     n \in [1..Len(ks) -> 0..MaxRetriesBound]}

\* C35: the key getCurrentKey hands to an attempt, whether it throws, and the
\* selection it leaves are a function of the keys' order, blocked flags and
\* availableAt and of the time alone: they are the same for every error count
\* of every key and for every selection made before.  So two runs from the same
\* pool state with the same outcomes at the same times use the same keys.
C35_ChoiceIgnoresCountsAndHistory ==
  [][IsCall("getCurrentKey")
       => \A ks \in SameButErrorCounts(keys), ci \in Indices(keys) :
            LET r == getCurrentKey(ks, ci, now)
            IN /\ r.threw = ret'.threw
               /\ r.key = ret'.key
               /\ ~r.threw => r.index = currentIndex'
               /\ keys' = keys]_vars

\* getCurrentKey has returned key 1 of three although the selection before the
\* call was key 2 and key 1 has the most errors counted: key 0 is in cooldown
C35_Witness ==
  /\ ret.op = "getCurrentKey"
  /\ Len(keys) = 3
  /\ InCooldown(0) /\ ~keys[1].isBlocked
  /\ keys[2].errorCount > keys[3].errorCount
  /\ IsAvailable(keys[2], now) /\ IsAvailable(keys[3], now)
  /\ currentIndex = 1
  /\ ret.key = keys[2].key


\* C36 (as claimed): a step that sets the script to a new value or to none
\* leaves no item state at any index: every slot of audioData is null or not
\* there.
C36_ItemsDiscardedOnScriptChangeClaim ==
  [][script' # script
       => \A k \in ItemIndices : ItemAbsent(SlotOf(audioData', k))]_vars


-----------------------------------------------------------------------------
(* Properties of the batch's pacing, checked under HookSpec *)

\* Some item with text after item i of the script sc is still to be processed
ItemRemains(sc, i) == \E k \in ItemIndices : k > i /\ HasText(sc, k)

\* C37 (as claimed): when an item of the batch has succeeded and an item with
\* text remains, the run waits PacingDelayMs and starts the next call of
\* generateSingleAudio only when the delay is over; and the run never waits
\* after the last item it processes.
C37_PacingOnlyBetweenItemsClaim ==
  [][\A p \in BatchRuns :
       /\ ( /\ run[p].pc = "exec" /\ RunSteps(p) /\ run'[p].pc # "exec"
            /\ ItemSucceeded(SlotOf(audioData', run[p].i))
            /\ ItemRemains(run[p].script, run[p].i) )
          => /\ run'[p].pc = "pacing"
             /\ run'[p].wakeAt = now + PacingDelayMs
             /\ ex'[p].pc = "idle"
       /\ (run[p].pc = "pacing" /\ run'[p].pc = "exec") => now >= run[p].wakeAt
       /\ run'[p].pc = "pacing" => ItemRemains(run'[p].script, run'[p].i)]_vars


-----------------------------------------------------------------------------
(* Properties of the item a failure leaves, checked under ClassifierSpec *)

\* C38 (as claimed): whatever value the catch block of an item holds, the item
\* it writes is Failed, and neither Loading nor Succeeded, and the counts of a
\* finished batch of that one item add up: succeeded + failed = total.
C38_FailedItemIsCountedClaim ==
  (Parsed /\ ~ret.threw) =>
    LET item == FailedClip(ret.args[1], now)
    IN /\ ItemFailed(item) /\ ~ItemLoading(item) /\ ~ItemSucceeded(item)
       /\ successCount(<<item>>) + errorCount(<<item>>) = totalNonEmpty(<<item>>)


-----------------------------------------------------------------------------
(* Properties of the batch's loading flag, checked under HookSpec *)

-----------------------------------------------------------------------------
(* Properties of the cooldown deadline, checked under PoolSpec *)

\* C40 (as claimed): no step moves the availableAt of a credential that is in
\* cooldown to an earlier time, whatever calls of markRateLimited are made.
C40_CooldownNeverShortenedClaim ==
  [][\A i \in Indices(keys) :
       InCooldown(i) => keys'[i + 1].availableAt >= keys[i + 1].availableAt]_vars

=============================================================================
